---- MODULE Spec2Model ----
(***************************************************************************)
(* Policy governance engine of the LaunchDarkly solutions kit:             *)
(*   - PolicyLinter (validate / fix_invalid_policies / generate_patches),  *)
(*   - the catalog matcher (normalize_pattern / pattern_to_regex /         *)
(*     does_pattern_match),                                                *)
(*   - RoleAttributeExtractor (discover_attribute_patterns /               *)
(*     extract_from_role_with_patterns).                                   *)
(* Text is a sequence of one-character strings; a regular expression is    *)
(* the text the code builds, parsed and run by a backtracking matcher.     *)
(***************************************************************************)
EXTENDS Integers, Sequences, FiniteSets, TLC

(***************************************************************************)
(* Text helpers                                                            *)
(***************************************************************************)

\* Characters of the model in code-point order (Python compares str by code point).
CharOrder ==
  << "\n", " ", "#", "$", "&", "(", ")", "*", "+", ",", "-", ".", "/",
     "0", "1", "2", ":", ";", "=", "?", "A", "[", "\\", "]", "^", "_",
     "a", "b", "c", "d", "e", "f", "g", "h", "i", "j", "k", "l", "m",
     "n", "o", "p", "q", "r", "s", "t", "u", "v", "w", "x", "y", "z",
     "{", "|", "}", "~" >>

CharRank(c) == CHOOSE i \in 1..Len(CharOrder) : CharOrder[i] = c

RECURSIVE StrLess(_, _)
\* a < b for two texts, as Python's str comparison
StrLess(a, b) ==
  IF b = <<>> THEN FALSE
  ELSE IF a = <<>> THEN TRUE
  ELSE IF a[1] = b[1] THEN StrLess(Tail(a), Tail(b))
  ELSE CharRank(a[1]) < CharRank(b[1])

RECURSIVE Join(_, _)
\* sep.join(parts)
Join(sep, parts) ==
  IF parts = <<>> THEN <<>>
  ELSE IF Len(parts) = 1 THEN parts[1]
  ELSE parts[1] \o sep \o Join(sep, Tail(parts))

RECURSIVE InsertText(_, _)
InsertText(x, sorted) ==
  IF sorted = <<>> THEN <<x>>
  ELSE IF StrLess(x, Head(sorted)) THEN <<x>> \o sorted
  ELSE <<Head(sorted)>> \o InsertText(x, Tail(sorted))

RECURSIVE SortTexts(_)
\* sorted(list of str)
SortTexts(xs) == IF xs = <<>> THEN <<>> ELSE InsertText(Head(xs), SortTexts(Tail(xs)))

\* The first of a set of positions of a loop that returns at its first hit,
\* 0 when the loop falls through.
FirstOf(hits) == IF hits = {} THEN 0 ELSE CHOOSE i \in hits : \A j \in hits : i <= j

\* Index of the first occurrence of c in s at or after position i, 0 when none.
FindFrom(s, c, i) ==
  IF \E j \in i..Len(s) : s[j] = c
  THEN CHOOSE j \in i..Len(s) : s[j] = c /\ \A k \in i..(j - 1) : s[k] # c
  ELSE 0

\* s.startswith(p, i)  (i is 1-based)
StartsAt(s, p, i) ==
  /\ i + Len(p) - 1 <= Len(s)
  /\ \A k \in 1..Len(p) : s[i + k - 1] = p[k]

\* s.find(p, i - 1) + 1: the first position at or after i where p starts, 0
\* when there is none
FindText(s, p, i) == FirstOf({j \in i..Len(s) : StartsAt(s, p, j)})

RECURSIVE ReplaceFrom(_, _, _, _)
\* s.replace(old, new) for the first occurrence being at k (0: none)
ReplaceFrom(s, old, new, k) ==
  IF k = 0 THEN s
  ELSE SubSeq(s, 1, k - 1) \o new
       \o ReplaceFrom(SubSeq(s, k + Len(old), Len(s)), old, new,
                      FindText(SubSeq(s, k + Len(old), Len(s)), old, 1))

\* s.replace(old, new), old non-empty: the occurrences from the left, none
\* overlapping another
ReplaceAll(s, old, new) ==
  IF s = <<>> THEN s ELSE ReplaceFrom(s, old, new, FindText(s, old, 1))

\* The first position of s at or after i where opener [^}]* } (least = 0) or
\* opener [^}]+ } (least = 1) matches, 0 when there is none
FindBraced(s, opener, least, i) ==
  FirstOf({j \in i..Len(s) :
             /\ StartsAt(s, opener, j)
             /\ FindFrom(s, "}", j + Len(opener)) >= j + Len(opener) + least})

RECURSIVE SubBracedFrom(_, _, _, _, _)
\* The substitution for the first match being at k (0: none)
SubBracedFrom(s, opener, least, repl, k) ==
  IF k = 0 THEN s
  ELSE SubSeq(s, 1, k - 1) \o repl
       \o SubBracedFrom(SubSeq(s, FindFrom(s, "}", k + Len(opener)) + 1, Len(s)),
                        opener, least, repl,
                        FindBraced(SubSeq(s, FindFrom(s, "}", k + Len(opener)) + 1, Len(s)),
                                   opener, least, 1))

\* re.sub(opener + r'[^}]*\}', repl, s), or with [^}]+ for least = 1: every
\* leftmost, non-overlapping "<opener> ... }" is replaced by repl.
SubBraced(s, opener, least, repl) ==
  IF s = <<>> THEN s
  ELSE SubBracedFrom(s, opener, least, repl, FindBraced(s, opener, least, 1))

\* Number of colon-separated segments of a text: len(s.split(':')).
NumSegments(s) == 1 + Cardinality({i \in 1..Len(s) : s[i] = ":"})

(***************************************************************************)
(* Regular expressions: the subset of Python's re the code produces        *)
(***************************************************************************)

\* Characters re.escape puts a backslash before (Python 3.7 and later).
ReSpecialChars ==
  { "(", ")", "[", "]", "{", "}", "?", "*", "+", "-", "|", "^", "$", "\\",
    ".", "&", "~", "#", " ", "\n" }

RECURSIVE ReEscape(_)
\* re.escape(s): character by character, the halves of s one after the other
ReEscape(s) ==
  IF s = <<>> THEN <<>>
  ELSE IF Len(s) = 1
  THEN (IF s[1] \in ReSpecialChars THEN <<"\\", s[1]>> ELSE s)
  ELSE ReEscape(SubSeq(s, 1, Len(s) \div 2))
       \o ReEscape(SubSeq(s, Len(s) \div 2 + 1, Len(s)))

NotColonText == << "[", "^", ":", "]" >>

\* The token list of a regular expression text.  Tokens:
\*   bol, eol            the anchors ^ and $
\*   lit c               one literal character (also \c)
\*   rep cls min cap     a greedy repetition of a character class: cls is
\*                       "notcolon" for [^:] and "dot" for . ; min is 0 for *
\*                       and 1 for + ; cap says the repetition is group 1
\*   one cls             a single character of the class
\* The token the non-empty text r starts with
FirstToken(r) ==
  IF Head(r) = "\\" /\ Len(r) >= 2 THEN [t |-> "lit", c |-> r[2]]
  ELSE IF Head(r) = "^" THEN [t |-> "bol"]
  ELSE IF Head(r) = "$" THEN [t |-> "eol"]
  ELSE IF StartsAt(r, <<"(">> \o NotColonText \o <<"+", ")">>, 1)
    THEN [t |-> "rep", cls |-> "notcolon", min |-> 1, cap |-> TRUE]
  ELSE IF StartsAt(r, NotColonText \o <<"+">>, 1)
    THEN [t |-> "rep", cls |-> "notcolon", min |-> 1, cap |-> FALSE]
  ELSE IF StartsAt(r, NotColonText \o <<"*">>, 1)
    THEN [t |-> "rep", cls |-> "notcolon", min |-> 0, cap |-> FALSE]
  ELSE IF StartsAt(r, <<".", "*">>, 1)
    THEN [t |-> "rep", cls |-> "dot", min |-> 0, cap |-> FALSE]
  ELSE IF Head(r) = "." THEN [t |-> "one", cls |-> "dot"]
  ELSE [t |-> "lit", c |-> Head(r)]

\* The number of characters of r the first token is written with
FirstTokenLen(r) ==
  IF Head(r) = "\\" /\ Len(r) >= 2 THEN 2
  ELSE IF Head(r) \in {"^", "$"} THEN 1
  ELSE IF StartsAt(r, <<"(">> \o NotColonText \o <<"+", ")">>, 1) THEN 7
  ELSE IF StartsAt(r, NotColonText \o <<"+">>, 1) THEN 5
  ELSE IF StartsAt(r, NotColonText \o <<"*">>, 1) THEN 5
  ELSE IF StartsAt(r, <<".", "*">>, 1) THEN 2
  ELSE 1

\* The characters a token other than the literal of the character can start with
RegexMeta == { "\\", "^", "$", "(", "[", "." }

\* The number of characters at the start of r that are none of RegexMeta
PlainRun(r) ==
  IF \E k \in 1..Len(r) : r[k] \in RegexMeta
  THEN FirstOf({k \in 1..Len(r) : r[k] \in RegexMeta}) - 1
  ELSE Len(r)

RECURSIVE ParseFrom(_, _)
\* The tokens of r, which starts with n plain characters: a run of plain
\* characters is a run of literals
ParseFrom(r, n) ==
  IF r = <<>> THEN <<>>
  ELSE IF n > 0
  THEN [k \in 1..n |-> [t |-> "lit", c |-> r[k]]]
       \o ParseFrom(SubSeq(r, n + 1, Len(r)), 0)
  ELSE <<FirstToken(r)>>
       \o ParseFrom(SubSeq(r, FirstTokenLen(r) + 1, Len(r)),
                    PlainRun(SubSeq(r, FirstTokenLen(r) + 1, Len(r))))

\* The tokens of r from the left
ParseRegex(r) == ParseFrom(r, PlainRun(r))

\* Whether character c belongs to class cls ( . does not match a newline).
InClass(cls, c) == IF cls = "notcolon" THEN c # ":" ELSE c # "\n"

\* Length of the longest run of class characters of s starting at j.
RunLen(cls, s, j) ==
  LET stop == {k \in j..Len(s) : ~InClass(cls, s[k])}
  IN  IF stop = {} THEN Len(s) - j + 1
      ELSE (CHOOSE k \in stop : \A m \in stop : k <= m) - j

NoMatch == [ok |-> FALSE, has |-> FALSE, cap |-> <<>>]

\* The last token of the run of literals that token i starts
LitRunEnd(toks, i) ==
  CHOOSE e \in i..Len(toks) :
    /\ \A k \in i..e : toks[k].t = "lit"
    /\ e = Len(toks) \/ toks[e + 1].t # "lit"

\* The literals i..e of toks are in s from position j
LitsMatch(toks, i, e, s, j) ==
  \A k \in i..e : j + (k - i) <= Len(s) /\ s[j + (k - i)] = toks[k].c

RECURSIVE MatchFrom(_, _, _, _)
\* Backtracking match of tokens i.. against s from position j, in the
\* priority order of Python's re: a greedy repetition takes the longest run
\* for which the rest still matches.  The result carries group 1.
MatchFrom(toks, i, s, j) ==
  IF i > Len(toks) THEN [ok |-> TRUE, has |-> FALSE, cap |-> <<>>]
  ELSE LET t == toks[i] IN
    CASE t.t = "bol" -> IF j = 1 THEN MatchFrom(toks, i + 1, s, j) ELSE NoMatch
      [] t.t = "eol" ->
           IF j = Len(s) + 1 \/ (j = Len(s) /\ s[j] = "\n")
           THEN MatchFrom(toks, i + 1, s, j) ELSE NoMatch
      [] t.t = "lit" ->
           LET e == LitRunEnd(toks, i)
           IN  IF LitsMatch(toks, i, e, s, j)
               THEN MatchFrom(toks, e + 1, s, j + (e - i + 1))
               ELSE NoMatch
      [] t.t = "one" ->
           IF j <= Len(s) /\ InClass(t.cls, s[j])
           THEN MatchFrom(toks, i + 1, s, j + 1) ELSE NoMatch
      [] t.t = "rep" ->
           LET good == {n \in t.min..RunLen(t.cls, s, j) :
                          MatchFrom(toks, i + 1, s, j + n).ok}
           IN  IF good = {} THEN NoMatch
               ELSE LET n == CHOOSE x \in good : \A y \in good : y <= x
                        rest == MatchFrom(toks, i + 1, s, j + n)
                    IN  IF t.cap
                        THEN [ok |-> TRUE, has |-> TRUE, cap |-> SubSeq(s, j, j + n - 1)]
                        ELSE rest

\* re.match(regex, text)
ReMatch(regex, text) == MatchFrom(ParseRegex(regex), 1, text, 1)

(***************************************************************************)
(* Catalog matching (PolicyLinter)                                         *)
(***************************************************************************)

\* normalize_pattern: ${...} becomes *, ;{...} is removed
normalize_pattern(pattern) ==
  SubBraced(SubBraced(pattern, <<"$", "{">>, 0, <<"*">>), <<";", "{">>, 0, <<>>)

\* Faulty variant: a * becomes .* and so runs over segment boundaries.
pattern_to_regex_crossing(pattern) ==
  <<"^">> \o ReplaceAll(ReEscape(normalize_pattern(pattern)), <<"\\", "*">>, <<".", "*">>)
  \o <<"$">>

\* pattern_to_regex: escape, an escaped * becomes [^:]*, anchor
pattern_to_regex(pattern) ==
  <<"^">> \o ReplaceAll(ReEscape(normalize_pattern(pattern)), <<"\\", "*">>,
                        NotColonText \o <<"*">>)
  \o <<"$">>

does_pattern_match(pattern, resource) ==
  ReMatch(pattern_to_regex(pattern), normalize_pattern(resource)).ok

(***************************************************************************)
(* Documents: a role is a record key / policy / hash, a statement a record *)
(* whose domain is the set of keys the JSON object has.  A verb is an      *)
(* atom; VerbOrder is the verbs of the model in Python's str order.        *)
(***************************************************************************)

VerbOrder ==
  << "*", "createMember", "createProject", "deleteMember", "deleteProject",
     "viewProject" >>

VerbRank(v) == CHOOSE i \in 1..Len(VerbOrder) : VerbOrder[i] = v

RECURSIVE InsertVerb(_, _)
InsertVerb(x, sorted) ==
  IF sorted = <<>> THEN <<x>>
  ELSE IF VerbRank(x) < VerbRank(Head(sorted)) THEN <<x>> \o sorted
  ELSE <<Head(sorted)>> \o InsertVerb(x, Tail(sorted))

RECURSIVE SortVerbs(_)
\* list.sort() of a list of verbs
SortVerbs(xs) == IF xs = <<>> THEN <<>> ELSE InsertVerb(Head(xs), SortVerbs(Tail(xs)))

Range(f) == {f[i] : i \in DOMAIN f}

\* d.get(k, [])
GetList(d, k) == IF k \in DOMAIN d THEN d[k] ELSE <<>>

\* statement.get('resources', []) or statement.get('notResources', [])
StatementResources(statement) ==
  IF GetList(statement, "resources") # <<>> THEN GetList(statement, "resources")
  ELSE GetList(statement, "notResources")

\* statement.get('actions', []) or statement.get('notActions', [])
StatementActions(statement) ==
  IF GetList(statement, "actions") # <<>> THEN GetList(statement, "actions")
  ELSE GetList(statement, "notActions")

\* The key under which the list StatementActions returns is stored ("" when
\* the list is a fresh [] of the .get default).
ActionsKey(statement) ==
  IF GetList(statement, "actions") # <<>> THEN "actions"
  ELSE IF "notActions" \in DOMAIN statement THEN "notActions"
  ELSE IF "actions" \in DOMAIN statement THEN "actions"
  ELSE ""

\* get_matching_resource_actions: the index of the first catalog entry whose
\* pattern matches, 0 for None.  The catalog is the (ordered) dict
\* resource_actions['resources'] as a sequence of pattern / actions entries.
get_matching_resource_actions(resource, resource_actions) ==
  FirstOf({i \in 1..Len(resource_actions) :
             does_pattern_match(resource_actions[i].pattern, resource)})

(***************************************************************************)
(* PolicyLinter.get_invalid_actions                                        *)
(***************************************************************************)

\* Faulty variant of the action loop: the wildcard is not skipped.
InvalidOfWithWildcard(actions, valid_actions) ==
  SelectSeq(actions, LAMBDA a : a \notin Range(valid_actions))

\* [a for a in actions if a != "*" and a not in valid_actions]  (lines 83-89)
InvalidOf(actions, valid_actions) ==
  SelectSeq(actions, LAMBDA a : a # "*" /\ a \notin Range(valid_actions))

\* What one pass of the statement loop leaves: the statement and the catalog
\* (both lists are sorted in place) and the records appended to
\* invalid_statements (none or one).
Pass(statement, resource_actions, recs) ==
  [statement |-> statement, catalog |-> resource_actions, recs |-> recs]

\* Lines 91-96: the record of a statement with invalid actions
InvalidRecord(statement, invalid_actions) ==
  IF Len(invalid_actions) > 0
  THEN <<[resources |-> StatementResources(statement), actions |-> invalid_actions,
          effect |-> IF "effect" \in DOMAIN statement THEN statement.effect ELSE ""]>>
  ELSE <<>>

\* Lines 80-96, with the two lists as list.sort() leaves them
LintSorted(statement, resource_actions, e, valid_actions, actions) ==
  Pass(IF ActionsKey(statement) = "" THEN statement
       ELSE [statement EXCEPT ![ActionsKey(statement)] = actions],
       [resource_actions EXCEPT ![e].actions = valid_actions],
       InvalidRecord(statement, InvalidOf(actions, valid_actions)))

\* Faulty variant: a statement of unknown resource type is reported with its
\* action list sorted.
LintMatchedSortingUnknown(statement, resource_actions, e) ==
  IF e = 0
  THEN Pass(statement, resource_actions,
            <<IF ActionsKey(statement) = "" THEN statement
              ELSE [statement EXCEPT ![ActionsKey(statement)] =
                                       SortVerbs(StatementActions(statement))]>>)
  ELSE LintSorted(statement, resource_actions, e,
                  SortVerbs(resource_actions[e].actions),
                  SortVerbs(StatementActions(statement)))

\* Faulty variant: the invalid actions are collected before actions.sort().
LintMatchedFilterFirst(statement, resource_actions, e) ==
  IF e = 0 THEN Pass(statement, resource_actions, <<statement>>)
  ELSE Pass(IF ActionsKey(statement) = "" THEN statement
            ELSE [statement EXCEPT ![ActionsKey(statement)] =
                                     SortVerbs(StatementActions(statement))],
            [resource_actions EXCEPT ![e].actions = SortVerbs(@)],
            InvalidRecord(statement,
                          InvalidOf(StatementActions(statement),
                                    resource_actions[e].actions)))

\* Lines 75-96, e being what get_matching_resource_actions returned
LintMatched(statement, resource_actions, e) ==
  IF e = 0 THEN Pass(statement, resource_actions, <<statement>>)
  ELSE LintSorted(statement, resource_actions, e,
                  SortVerbs(resource_actions[e].actions),
                  SortVerbs(StatementActions(statement)))

\* One pass of the statement loop (lines 63-96)
LintStatement(statement, resource_actions) ==
  IF Len(StatementResources(statement)) = 0 THEN Pass(statement, resource_actions, <<>>)
  ELSE LintMatched(statement, resource_actions,
                   get_matching_resource_actions(StatementResources(statement)[1],
                                                 resource_actions))

\* The locals of the statement loop after a pass that returned r
AfterStatement(acc, r) ==
  [policy |-> Append(acc.policy, r.statement), catalog |-> r.catalog,
   recs |-> acc.recs \o r.recs]

RECURSIVE LintPolicy(_, _, _)
\* The statement loop of one role from statement i on: acc holds the
\* statements passed, the catalog and the records collected so far.
LintPolicy(policy, i, acc) ==
  IF i > Len(policy) THEN acc
  ELSE LintPolicy(policy, i + 1, AfterStatement(acc, LintStatement(policy[i], acc.catalog)))

\* invalid_policies[key] = value on an insertion-ordered dict
DictPut(d, key, value) ==
  IF \E i \in 1..Len(d) : d[i].key = key
  THEN [i \in 1..Len(d) |-> IF d[i].key = key THEN [key |-> key, value |-> value] ELSE d[i]]
  ELSE Append(d, [key |-> key, value |-> value])

DictHas(d, key) == \E i \in 1..Len(d) : d[i].key = key

DictGet(d, key) == d[CHOOSE i \in 1..Len(d) : d[i].key = key].value

\* Faulty variant: the role gets an entry whatever the statement loop found.
AfterRoleAlways(acc, role, r) ==
  [policies |-> Append(acc.policies, [role EXCEPT !.policy = r.policy]),
   catalog  |-> r.catalog,
   report   |-> DictPut(acc.report, role.key, r.recs)]

\* Lines 98-99: the locals of the role loop after the statement loop of
\* role returned r
AfterRole(acc, role, r) ==
  [policies |-> Append(acc.policies, [role EXCEPT !.policy = r.policy]),
   catalog  |-> r.catalog,
   report   |-> IF Len(r.recs) > 0 THEN DictPut(acc.report, role.key, r.recs)
                ELSE acc.report]

RECURSIVE LintRoles(_, _, _)
\* The role loop (lines 59-99) from role i on.
LintRoles(roles, i, acc) ==
  IF i > Len(roles) THEN acc
  ELSE LintRoles(roles, i + 1,
                 AfterRole(acc, roles[i],
                           LintPolicy(roles[i].policy, 1,
                                      [policy |-> <<>>, catalog |-> acc.catalog,
                                       recs |-> <<>>])))

\* get_invalid_actions(policies, resource_actions): the report it returns and
\* its two arguments as the call leaves them.
get_invalid_actions(roles, resource_actions) ==
  LintRoles(roles, 1, [policies |-> <<>>, catalog |-> resource_actions, report |-> <<>>])

(***************************************************************************)
(* policy_validator.get_invalid_actions (the similarity package)           *)
(***************************************************************************)

RECURSIVE DedupInvalidRepeating(_, _, _)
\* Faulty variant: an action already listed for the role is appended again.
DedupInvalidRepeating(actions, resource_actions, listed) ==
  IF actions = <<>> THEN listed
  ELSE DedupInvalidRepeating(
         Tail(actions), resource_actions,
         IF Head(actions) = "*"
            \/ \E i \in 1..Len(resource_actions) :
                  Head(actions) \in Range(resource_actions[i].actions)
         THEN listed ELSE Append(listed, Head(actions)))

RECURSIVE DedupInvalid(_, _, _)
\* The inner loops over one list of actions: an action found in no verb list
\* of the catalog is appended unless already listed.
DedupInvalid(actions, resource_actions, listed) ==
  IF actions = <<>> THEN listed
  ELSE LET a == Head(actions)
           found == \E i \in 1..Len(resource_actions) :
                       a \in Range(resource_actions[i].actions)
       IN  DedupInvalid(Tail(actions), resource_actions,
                        IF a = "*" \/ found \/ a \in Range(listed) THEN listed
                        ELSE Append(listed, a))

RECURSIVE SimPolicy(_, _, _)
SimPolicy(policy, resource_actions, listed) ==
  IF policy = <<>> THEN listed
  ELSE SimPolicy(Tail(policy), resource_actions,
                 DedupInvalid(StatementActions(Head(policy)), resource_actions, listed))

RECURSIVE SimRoles(_, _, _)
SimRoles(roles, resource_actions, invalid_policies) ==
  IF roles = <<>> THEN invalid_policies
  ELSE LET prior == IF DictHas(invalid_policies, Head(roles).key)
                    THEN DictGet(invalid_policies, Head(roles).key) ELSE <<>>
           listed == SimPolicy(Head(roles).policy, resource_actions, prior)
       IN  SimRoles(Tail(roles), resource_actions,
                    IF Len(listed) > 0
                    THEN DictPut(invalid_policies, Head(roles).key, listed)
                    ELSE invalid_policies)

\* policy_validator.get_invalid_actions(roles, resource_actions)
similarity_get_invalid_actions(roles, resource_actions) ==
  SimRoles(roles, resource_actions, <<>>)

(***************************************************************************)
(* jsonpatch (RFC 6902), as generate_patches uses it.  A patch is a        *)
(* sequence of operations op / path / value; a path is a JSON pointer with *)
(* 0-based list indexes: <<"policy", 1, "actions", 0>>.                    *)
(***************************************************************************)

StatementKeys == <<"resources", "notResources", "actions", "notActions", "effect">>

RoleKeys == <<"key", "policy", "hash">>

Op(kind, path, value) == [op |-> kind, path |-> path, value |-> value]

RECURSIVE DiffAtoms(_, _, _, _)
\* jsonpatch's positional comparison of two lists of strings, from 0-based
\* index j: a differing item is replaced, a surplus item of src is removed
\* at index len(dst), a surplus item of dst is added at its index.
DiffAtoms(path, src, dst, j) ==
  IF j >= Len(src) /\ j >= Len(dst) THEN <<>>
  ELSE (IF j < Len(src) /\ j < Len(dst)
        THEN (IF src[j + 1] = dst[j + 1] THEN <<>>
              ELSE <<Op("replace", Append(path, j), dst[j + 1])>>)
        ELSE IF Len(src) > Len(dst)
        THEN <<Op("remove", Append(path, Len(dst)), <<>>)>>
        ELSE <<Op("add", Append(path, j), dst[j + 1])>>)
       \o DiffAtoms(path, src, dst, j + 1)

RECURSIVE DiffKeys(_, _, _, _)
\* jsonpatch's comparison of two statement objects, key by key.
DiffKeys(path, src, dst, keys) ==
  IF keys = <<>> THEN <<>>
  ELSE LET k == Head(keys) IN
    (IF k \in DOMAIN src /\ k \notin DOMAIN dst THEN <<Op("remove", Append(path, k), <<>>)>>
     ELSE IF k \notin DOMAIN src /\ k \in DOMAIN dst THEN <<Op("add", Append(path, k), dst[k])>>
     ELSE IF k \notin DOMAIN src THEN <<>>
     ELSE IF src[k] = dst[k] THEN <<>>
     ELSE IF k = "effect" THEN <<Op("replace", Append(path, k), dst[k])>>
     ELSE DiffAtoms(Append(path, k), src[k], dst[k], 0))
    \o DiffKeys(path, src, dst, Tail(keys))

RECURSIVE DiffStatements(_, _, _, _)
\* jsonpatch's positional comparison of two lists of statement objects.
DiffStatements(path, src, dst, j) ==
  IF j >= Len(src) /\ j >= Len(dst) THEN <<>>
  ELSE (IF j < Len(src) /\ j < Len(dst)
        THEN (IF src[j + 1] = dst[j + 1] THEN <<>>
              ELSE DiffKeys(Append(path, j), src[j + 1], dst[j + 1], StatementKeys))
        ELSE IF Len(src) > Len(dst)
        THEN <<Op("remove", Append(path, Len(dst)), <<>>)>>
        ELSE <<Op("add", Append(path, j), dst[j + 1])>>)
       \o DiffStatements(path, src, dst, j + 1)

RECURSIVE DiffRole(_, _, _)
DiffRole(src, dst, keys) ==
  IF keys = <<>> THEN <<>>
  ELSE LET k == Head(keys) IN
    (IF k \in DOMAIN src /\ k \notin DOMAIN dst THEN <<Op("remove", <<k>>, <<>>)>>
     ELSE IF k \notin DOMAIN src /\ k \in DOMAIN dst THEN <<Op("add", <<k>>, dst[k])>>
     ELSE IF k \notin DOMAIN src THEN <<>>
     ELSE IF src[k] = dst[k] THEN <<>>
     ELSE IF k = "key" THEN <<Op("replace", <<k>>, dst[k])>>
     ELSE IF k = "policy" THEN DiffStatements(<<k>>, src[k], dst[k], 0)
     ELSE DiffAtoms(<<k>>, src[k], dst[k], 0))
    \o DiffRole(src, dst, Tail(keys))

\* jsonpatch.make_patch(src, dst) for two role documents
MakePatch(src, dst) == DiffRole(src, dst, RoleKeys)

Failed == [ok |-> FALSE, val |-> <<>>]

Done(v) == [ok |-> TRUE, val |-> v]

\* One operation on a list at 0-based index i.
ListOp(list, kind, i, value) ==
  CASE kind = "remove" ->
         IF i >= 0 /\ i < Len(list)
         THEN Done(SubSeq(list, 1, i) \o SubSeq(list, i + 2, Len(list))) ELSE Failed
    [] kind = "replace" ->
         IF i >= 0 /\ i < Len(list) THEN Done([list EXCEPT ![i + 1] = value]) ELSE Failed
    [] kind = "add" ->
         IF i >= 0 /\ i <= Len(list)
         THEN Done(SubSeq(list, 1, i) \o <<value>> \o SubSeq(list, i + 1, Len(list)))
         ELSE Failed

\* One operation on member k of an object.
DictOp(d, kind, k, value) ==
  CASE kind = "remove" ->
         IF k \in DOMAIN d THEN Done([x \in DOMAIN d \ {k} |-> d[x]]) ELSE Failed
    [] kind = "replace" ->
         IF k \in DOMAIN d THEN Done([d EXCEPT ![k] = value]) ELSE Failed
    [] kind = "add" ->
         Done([x \in DOMAIN d \cup {k} |-> IF x = k THEN value ELSE d[x]])

\* One operation applied to a role document.
ApplyOp(doc, o) ==
  LET p == o.path IN
  IF Len(p) = 1 THEN DictOp(doc, o.op, p[1], o.value)
  ELSE IF p[1] \notin DOMAIN doc THEN Failed
  ELSE IF Len(p) = 2 THEN
    LET r == ListOp(doc[p[1]], o.op, p[2], o.value)
    IN  IF r.ok THEN Done([doc EXCEPT ![p[1]] = r.val]) ELSE Failed
  ELSE IF ~(p[2] >= 0 /\ p[2] < Len(doc[p[1]])) THEN Failed
  ELSE LET st == doc[p[1]][p[2] + 1] IN
    IF Len(p) = 3 THEN
      LET r == DictOp(st, o.op, p[3], o.value)
      IN  IF r.ok THEN Done([doc EXCEPT ![p[1]][p[2] + 1] = r.val]) ELSE Failed
    ELSE IF p[3] \notin DOMAIN st THEN Failed
    ELSE LET r == ListOp(st[p[3]], o.op, p[4], o.value)
         IN  IF r.ok THEN Done([doc EXCEPT ![p[1]][p[2] + 1][p[3]] = r.val]) ELSE Failed

RECURSIVE ApplyPatch(_, _)
\* jsonpatch.apply_patch(doc, patch): ok and the patched document, or not ok
\* when an operation does not apply (the library raises).
ApplyPatch(doc, patch) ==
  IF patch = <<>> THEN Done(doc)
  ELSE LET r == ApplyOp(doc, Head(patch))
       IN  IF r.ok THEN ApplyPatch(r.val, Tail(patch)) ELSE Failed

(***************************************************************************)
(* PolicyLinter.fix_invalid_policies: one pass of the role loop            *)
(***************************************************************************)

\* create_resource_hash, for a statement that has resources: the text that
\* is digested, ', '.join(sorted(resources)) (md5 is taken as injective).
create_resource_hash(statement) ==
  Join(<<",", " ">>, SortTexts(StatementResources(statement)))

\* set_policy_hash: policy['hash'] = [create_resource_hash(s) for s in statements]
set_policy_hash(role) ==
  [k \in DOMAIN role \cup {"hash"} |->
     IF k = "hash"
     THEN [i \in 1..Len(role.policy) |-> create_resource_hash(role.policy[i])]
     ELSE role[k]]

\* remove_policy_hash: del policy['hash'] when policy.get('hash') is truthy
remove_policy_hash(role) ==
  IF "hash" \in DOMAIN role /\ role.hash # <<>>
  THEN [k \in DOMAIN role \ {"hash"} |-> role[k]]
  ELSE role

\* Faulty variant: only the first occurrence of an invalid action is left out.
get_valid_actions_first_only(policy_actions, invalid_actions) ==
  SelectSeq([i \in 1..Len(policy_actions) |->
               IF policy_actions[i] \in Range(invalid_actions)
                  /\ \A j \in 1..(i - 1) : policy_actions[j] # policy_actions[i]
               THEN "" ELSE policy_actions[i]],
            LAMBDA a : a # "")

\* get_valid_actions
get_valid_actions(policy_actions, invalid_actions) ==
  SelectSeq(policy_actions, LAMBDA a : a \notin Range(invalid_actions))

\* _get_policy_index: 1-based index of the first policy with the key, 0 for None
get_policy_index(roles, policy_key) ==
  FirstOf({i \in 1..Len(roles) : roles[i].key = policy_key})

\* list.index(x), 1-based, 0 when x is not in the list
ListIndex(list, x) == FirstOf({i \in 1..Len(list) : list[i] = x})

\* What the loop over invalid_statements leaves: statements is
\* modified_policy['policy'], to_remove the positions of the statement
\* objects appended to statements_to_remove, err the exception that ended
\* the loop ("" for none).
Stripped(e, statements, to_remove) ==
  [err |-> e, statements |-> statements, to_remove |-> to_remove]

RECURSIVE StripLoop(_, _, _, _)

\* Lines 197-203: the statement at index keeps valid_actions, and is
\* appended to statements_to_remove when none are left
StripActions(invalid_statements, hashes, statements, to_remove, index, valid_actions) ==
  StripLoop(Tail(invalid_statements), hashes,
            [statements EXCEPT ![index].actions = valid_actions],
            IF Len(valid_actions) = 0 THEN Append(to_remove, index) ELSE to_remove)

\* Lines 193-203, index being what modified_policy['hash'].index returned
StripAt(invalid_statements, hashes, statements, to_remove, index) ==
  IF index = 0 THEN Stripped("ValueError", statements, to_remove)
  ELSE IF "actions" \notin DOMAIN Head(invalid_statements)
  THEN Stripped("KeyError", statements, to_remove)
  ELSE IF index > Len(statements) THEN Stripped("IndexError", statements, to_remove)
  ELSE IF "actions" \notin DOMAIN statements[index]
  THEN Stripped("KeyError", statements, to_remove)
  ELSE StripActions(invalid_statements, hashes, statements, to_remove, index,
                    get_valid_actions(statements[index].actions,
                                      Head(invalid_statements).actions))

\* The loop over invalid_statements (lines 190-203)
StripLoop(invalid_statements, hashes, statements, to_remove) ==
  IF invalid_statements = <<>> THEN Stripped("", statements, to_remove)
  ELSE IF StatementResources(Head(invalid_statements)) = <<>>
  THEN Stripped("ValueError", statements, to_remove)
  ELSE StripAt(invalid_statements, hashes, statements, to_remove,
               ListIndex(hashes, create_resource_hash(Head(invalid_statements))))

RECURSIVE RemoveLoop(_, _, _)

\* list.remove(x) at the position k list.index found, ValueError when none
RemoveAt(objects, statements, to_remove, k) ==
  IF k = 0 THEN [err |-> "ValueError", statements |-> statements]
  ELSE RemoveLoop(objects,
                  SubSeq(statements, 1, k - 1) \o SubSeq(statements, k + 1, Len(statements)),
                  Tail(to_remove))

\* The loop over statements_to_remove (lines 206-207).  objects are the
\* statement objects as the strip loop left them; list.remove(x) deletes the
\* first item equal to x and raises when there is none.
RemoveLoop(objects, statements, to_remove) ==
  IF to_remove = <<>> THEN [err |-> "", statements |-> statements]
  ELSE RemoveAt(objects, statements, to_remove,
                ListIndex(statements, objects[Head(to_remove)]))

\* How one pass of the role loop ends: outcome "raise" (with err), "skipped"
\* or "fixed", and for "fixed" the two documents handed to generate_patches.
Outcome(o, e, original_policy, modified_policy) ==
  [outcome |-> o, err |-> e, original |-> original_policy, modified |-> modified_policy]

\* Faulty variant: a policy left without statements is handed on like any other.
FixRemovedNeverSkipping(role, r) ==
  IF r.err # "" THEN Outcome("raise", r.err, <<>>, <<>>)
  ELSE Outcome("fixed", "", remove_policy_hash(role),
               remove_policy_hash([role EXCEPT !.policy = r.statements]))

\* Lines 210-218, r being what the loop over statements_to_remove left
FixRemoved(role, r) ==
  IF r.err # "" THEN Outcome("raise", r.err, <<>>, <<>>)
  ELSE IF Len(r.statements) = 0 THEN Outcome("skipped", "", <<>>, <<>>)
  ELSE Outcome("fixed", "", remove_policy_hash(role),
               remove_policy_hash([role EXCEPT !.policy = r.statements]))

\* Lines 205-218, s being what the loop over invalid_statements left
FixStripped(role, s) ==
  IF s.err # "" THEN Outcome("raise", s.err, <<>>, <<>>)
  ELSE FixRemoved(role, RemoveLoop(s.statements, s.statements, s.to_remove))

\* Lines 186-218 for the role found at policy_index
FixFound(role, invalid_statements) ==
  IF "hash" \notin DOMAIN role THEN Outcome("raise", "KeyError", <<>>, <<>>)
  ELSE FixStripped(role, StripLoop(invalid_statements, role.hash, role.policy, <<>>))

\* The body of the role loop up to the call of generate_patches (lines 182-218)
FixRole(roles, policy_key, invalid_statements) ==
  IF get_policy_index(roles, policy_key) = 0
  THEN Outcome("raise", "ValueError", <<>>, <<>>)
  ELSE FixFound(roles[get_policy_index(roles, policy_key)], invalid_statements)

(***************************************************************************)
(* PolicyLinter.generate_patches and its round-trip checks                 *)
(***************************************************************************)

\* A patch, or the patch without its last operation
OrDefective(patch) == {patch, SubSeq(patch, 1, Len(patch) - 1)}

\* What jsonpatch.make_patch may hand back.  The library is not part of the
\* repository: its diff is taken to be the positional diff above, or a
\* defective diff that misses its last operation, which is the case the
\* round-trip checks of generate_patches exist for.
PatchOutcomes(src, dst) == OrDefective(MakePatch(src, dst))

\* Faulty variant: the forward check passes whatever it is given.
test_patch_unchecked(modified_policy, applied_patch_policy) == TRUE

\* test_patch(modified_policy, applied_patch_policy): TRUE for "Pass"
test_patch(modified_policy, applied_patch_policy) ==
  Len(MakePatch(modified_policy, applied_patch_policy)) = 0

\* Lines 319-321 of test_reverse_patch, applied being what apply_patch did
ReverseVerdict(original_policy, applied) ==
  IF ~applied.ok THEN "Error"
  ELSE IF Len(MakePatch(original_policy, applied.val)) = 0 THEN "Pass"
  ELSE "Fail"

\* test_reverse_patch(original, modified, reverse_patch): "Pass", "Fail", or
\* "Error" when apply_patch itself raises
test_reverse_patch(original_policy, modified_policy, reverse_patch) ==
  ReverseVerdict(original_policy, ApplyPatch(modified_policy, reverse_patch))

\* The documents save_patch_file / save_patched_file / save_reverse_patch_file
\* write (created_at, a wall-clock stamp, is left out).
patch_file(policy_key, patch) ==
  [key |-> policy_key, type |-> "patch", patch |-> patch]

reverse_patch_file(policy_key, reverse_patch) ==
  [key |-> policy_key, type |-> "reverse-patch", patch |-> reverse_patch]

\* The custom role of generate_limited_update_policy_role
custom_role(fixed) ==
  [key |-> "limited-update-policy-role", type |-> "custom-role",
   policy |-> <<[resources |-> fixed, actions |-> <<"updatePolicy">>, effect |-> "allow"]>>]

(***************************************************************************)
(* The policy linter as a state machine                                    *)
(***************************************************************************)

VARIABLES
  all_policies_file,    \* exported_roles/all-policies.json: the roles, hashed
  policies,             \* the list of roles validate is handed (in memory)
  resource_actions,     \* the catalog (in memory), an ordered dict
  invalid_policies,     \* what the last validate returned
  previous_report,      \* what the validate before it returned
  runs,                 \* number of validate runs so far
  similarity_report,    \* policy_validator.get_invalid_actions: called, and its result
  invalid_actions_file, \* reports/invalid_actions.json
  pc,                   \* position of the command line tool
  todo,                 \* fix: items of invalid_policies not yet visited
  cur,                  \* fix: locals of the current generate_patches call
  fixed_policies,       \* fix: keys appended to fixed_policies
  skipped_policies,     \* fix: keys appended to skipped_policies
  fixlog,               \* per fixed key: the documents given to generate_patches
                        \* and the round-trip checks passed so far
  files,                \* the patch directory: file name -> document
  err                   \* the exception that ended the run ("" for none)

VARIABLES
  match,                \* one call of does_pattern_match
  ext                   \* one run of the attribute extractor

VARIABLES
  batch,                \* one call of generate_team_patches(_multi_template)
  patch_dir,            \* output/patches: the team patch files
  apply                 \* one call of apply_patches

VARIABLES
  cli,                  \* one run of the policy linter CLI with patch options
  http                  \* one call of a request function of the API client

lint_vars == << policies, resource_actions, invalid_policies, previous_report, runs,
                similarity_report, invalid_actions_file >>

fix_vars == << todo, cur, fixed_policies, skipped_policies, fixlog, files, err >>

other_vars == << match, ext, batch, patch_dir, apply, cli, http >>

vars == << all_policies_file, lint_vars, pc, fix_vars, other_vars >>

\* ---- bounds ----
MaxStatements == 2   \* statements in the policy of the first role
MaxRuns == 2         \* validate runs in one behaviour

\* ---- the documents of the model ----
ProjAll   == << "p", "r", "o", "j", "/", "*" >>
MemberAll == << "m", "e", "m", "b", "e", "r", "/", "*" >>
FooAll    == << "f", "o", "o", "/", "*" >>

\* {"proj/*": [viewProject, createProject], "member/*": [createMember, deleteMember]}
Catalog ==
  << [pattern |-> ProjAll,   actions |-> <<"viewProject", "createProject">>],
     [pattern |-> MemberAll, actions |-> <<"createMember", "deleteMember">>] >>

StatementUniverse ==
  { \* one invalid action among valid ones
    [resources |-> <<ProjAll>>, actions |-> <<"createProject", "deleteProject">>,
     effect |-> "allow"],
    \* valid, not in sorted order
    [resources |-> <<ProjAll>>, actions |-> <<"viewProject", "createProject">>,
     effect |-> "allow"],
    \* every action invalid; same resource list as the first
    [resources |-> <<ProjAll>>, actions |-> <<"deleteProject">>, effect |-> "deny"],
    \* repeated and unsorted invalid actions, and the wildcard
    [resources |-> <<ProjAll>>,
     actions |-> <<"viewProject", "deleteProject", "*", "deleteMember", "deleteProject">>,
     effect |-> "allow"],
    \* resource type the catalog does not know
    [resources |-> <<FooAll>>, actions |-> <<"viewProject", "createProject">>,
     effect |-> "allow"],
    \* notActions and notResources
    [notResources |-> <<ProjAll>>, notActions |-> <<"viewProject", "deleteProject">>,
     effect |-> "deny"],
    \* two statements whose resource lists are permutations of each other
    [resources |-> <<MemberAll, ProjAll>>, actions |-> <<"createProject", "createMember">>,
     effect |-> "allow"],
    [resources |-> <<ProjAll, MemberAll>>, actions |-> <<"createProject">>,
     effect |-> "allow"] }

RECURSIVE SeqsUpTo(_, _)
\* The sequences over S of length 1..n
SeqsUpTo(S, n) ==
  IF n = 0 THEN {}
  ELSE {<<x>> : x \in S}
       \cup {Append(q, x) : q \in SeqsUpTo(S, n - 1), x \in S}

\* What follows the first role in the export: nothing, a role that can be
\* fixed, or a role that fixing would empty.
LaterRoles ==
  { <<>>,
    <<[key |-> "r2",
       policy |-> <<[resources |-> <<ProjAll>>,
                     actions |-> <<"createProject", "deleteProject">>,
                     effect |-> "allow"]>>]>>,
    <<[key |-> "r2",
       policy |-> <<[resources |-> <<MemberAll>>, actions |-> <<"viewProject">>,
                     effect |-> "allow"]>>]>> }

\* export_policies: every role is hashed and the list is saved
Exports ==
  { LET roles == <<[key |-> "r1", policy |-> p]>> \o later
    IN  [i \in 1..Len(roles) |-> set_policy_hash(roles[i])]
    : p \in SeqsUpTo(StatementUniverse, MaxStatements), later \in LaterRoles }

NoFile == [exists |-> FALSE, content |-> <<>>]

NoCall == [key |-> "", original |-> <<>>, modified |-> <<>>, patch |-> <<>>,
           applied |-> <<>>, reverse |-> <<>>]

MatchIdle == [pattern |-> <<>>, resource |-> <<>>, called |-> FALSE, result |-> FALSE]

ExtIdle == [template |-> <<>>, role |-> <<>>, step |-> "off", patterns |-> <<>>,
            values |-> <<>>]

BatchIdle == [step |-> "off", data |-> <<>>, templates |-> <<>>, team_keys |-> <<>>,
              attribute_patterns |-> <<>>, template_role_keys |-> <<>>, i |-> 0, now |-> 0,
              outcomes |-> <<>>, generated_patches |-> <<>>, failed_teams |-> <<>>,
              skipped_teams |-> <<>>, result |-> <<>>]

ApplyIdle == [called |-> FALSE, team_keys |-> <<>>, selected_patch_files |-> <<>>,
              submitted |-> <<>>, err |-> ""]

\* The team manager has not been called and output/patches is empty
TeamsIdle == batch = BatchIdle /\ patch_dir = {} /\ apply = ApplyIdle

CliIdle == [step |-> "off", earlier |-> "none", apply_patch |-> <<>>,
            reverse_patch |-> <<>>, answers |-> <<>>, sent |-> <<>>, ret |-> -1]

HttpIdle == [step |-> "off", method |-> "", max_retries |-> 0, attempt |-> 0,
             history |-> <<>>, last_exception |-> "None", raised |-> ""]

\* No patch is being applied by the CLI and no request is under way
ToolsIdle == cli = CliIdle /\ http = HttpIdle

\* The linter before any command, with the export all-policies.json
LinterStart(export) ==
  /\ all_policies_file = export
  /\ policies = all_policies_file
  /\ resource_actions = Catalog
  /\ invalid_policies = <<>>
  /\ previous_report = <<>>
  /\ runs = 0
  /\ similarity_report = [called |-> FALSE, report |-> <<>>]
  /\ invalid_actions_file = NoFile
  /\ pc = "idle"
  /\ todo = <<>>
  /\ cur = NoCall
  /\ fixed_policies = <<>>
  /\ skipped_policies = <<>>
  /\ fixlog = <<>>
  /\ files = <<>>
  /\ err = ""

Init ==
  /\ \E export \in Exports : LinterStart(export)
  /\ match = MatchIdle
  /\ ext = ExtIdle
  /\ TeamsIdle
  /\ ToolsIdle

\* _proc_validate_policies: validate, and save the report when it is not
\* empty.  The roles are the list already in memory or a fresh load of the
\* export.
Validate ==
  /\ pc = "idle"
  /\ runs < MaxRuns
  /\ \E input \in {policies, all_policies_file} :
     \E r \in {get_invalid_actions(input, resource_actions)} :
         /\ policies' = r.policies
         /\ resource_actions' = r.catalog
         /\ invalid_policies' = r.report
         /\ invalid_actions_file' =
              IF Len(r.report) > 0 THEN [exists |-> TRUE, content |-> r.report]
              ELSE invalid_actions_file
  /\ previous_report' = invalid_policies
  /\ runs' = runs + 1
  /\ UNCHANGED << all_policies_file, similarity_report, pc, fix_vars, other_vars >>

\* validate_policies of the similarity package, on the exported roles
ValidateSimilarity ==
  /\ pc = "idle"
  /\ ~similarity_report.called
  /\ similarity_report' =
       [called |-> TRUE,
        report |-> similarity_get_invalid_actions(policies, resource_actions)]
  /\ UNCHANGED << all_policies_file, policies, resource_actions, invalid_policies,
                  previous_report, runs, invalid_actions_file, pc, fix_vars, other_vars >>

Raise(e) == pc' = "raised" /\ err' = e

\* _proc_fix_policies: load the report and the export, enter the role loop
FixBegin ==
  /\ pc = "idle"
  /\ IF ~invalid_actions_file.exists THEN Raise("ValueError") /\ todo' = todo
     ELSE IF Len(invalid_actions_file.content) = 0
          THEN pc' = "done" /\ err' = err /\ todo' = todo
          ELSE pc' = "fix_loop" /\ err' = err /\ todo' = invalid_actions_file.content
  /\ UNCHANGED << all_policies_file, lint_vars, cur, fixed_policies, skipped_policies,
                  fixlog, files, other_vars >>

\* One pass of the role loop of fix_invalid_policies, up to generate_patches
FixNextRole ==
  /\ pc = "fix_loop"
  /\ todo # <<>>
  /\ \E item \in {Head(todo)} :
     \E r \in {FixRole(all_policies_file, item.key, item.value)} :
       /\ todo' = Tail(todo)
       /\ IF r.outcome = "raise"
          THEN /\ Raise(r.err)
               /\ UNCHANGED << cur, fixed_policies, skipped_policies, fixlog >>
          ELSE IF r.outcome = "skipped"
          THEN /\ skipped_policies' = Append(skipped_policies, item.key)
               /\ pc' = "fix_loop"
               /\ UNCHANGED << cur, fixed_policies, fixlog, err >>
          ELSE /\ fixed_policies' = Append(fixed_policies, item.key)
               /\ cur' = [NoCall EXCEPT !.key = item.key, !.original = r.original,
                                        !.modified = r.modified]
               /\ fixlog' = Append(fixlog, [key |-> item.key, original |-> r.original,
                                            modified |-> r.modified, passed |-> {}])
               /\ pc' = "gen_make"
               /\ UNCHANGED << skipped_policies, err >>
  /\ UNCHANGED << all_policies_file, lint_vars, files, other_vars >>

\* Faulty variant: the three saves come before the two checks.
AfterStepSavingFirst(step) ==
  CASE step = "gen_make"         -> "gen_save_patch"
    [] step = "gen_save_patch"   -> "gen_save_patched"
    [] step = "gen_save_patched" -> "gen_save_reverse"
    [] step = "gen_save_reverse" -> "gen_test_patch"
    [] step = "gen_test_patch"   -> "gen_test_reverse"
    [] step = "gen_test_reverse" -> "fix_loop"

\* The order of the steps of generate_patches: the two checks, then the
\* three saves, then back to the role loop.
AfterStep(step) ==
  CASE step = "gen_make"         -> "gen_test_patch"
    [] step = "gen_test_patch"   -> "gen_test_reverse"
    [] step = "gen_test_reverse" -> "gen_save_patch"
    [] step = "gen_save_patch"   -> "gen_save_patched"
    [] step = "gen_save_patched" -> "gen_save_reverse"
    [] step = "gen_save_reverse" -> "fix_loop"

Passed(check) ==
  fixlog' = [fixlog EXCEPT ![Len(fixlog)].passed = @ \cup {check}]

\* generate_patches, lines 302-304: the patch, the patched policy, the
\* reverse patch
GenMake ==
  /\ pc = "gen_make"
  /\ \E patch \in PatchOutcomes(cur.original, cur.modified),
        reverse \in PatchOutcomes(cur.modified, cur.original) :
       \E applied \in {ApplyPatch(cur.original, patch)} :
         IF applied.ok
         THEN /\ cur' = [cur EXCEPT !.patch = patch, !.applied = applied.val,
                                    !.reverse = reverse]
              /\ pc' = AfterStep("gen_make")
              /\ err' = err
         ELSE /\ Raise("JsonPatchException")
              /\ cur' = cur
  /\ UNCHANGED << all_policies_file, lint_vars, todo, fixed_policies, skipped_policies,
                  fixlog, files, other_vars >>

\* generate_patches, line 307
GenTestPatch ==
  /\ pc = "gen_test_patch"
  /\ IF test_patch(cur.modified, cur.applied)
     THEN pc' = AfterStep("gen_test_patch") /\ err' = err /\ Passed("test_patch")
     ELSE Raise("ValueError") /\ fixlog' = fixlog
  /\ UNCHANGED << all_policies_file, lint_vars, todo, cur, fixed_policies,
                  skipped_policies, files, other_vars >>

\* generate_patches, line 308
GenTestReverse ==
  /\ pc = "gen_test_reverse"
  /\ \E t \in {test_reverse_patch(cur.original, cur.modified, cur.reverse)} :
       IF t = "Pass"
       THEN pc' = AfterStep("gen_test_reverse") /\ err' = err /\ Passed("test_reverse_patch")
       ELSE Raise(IF t = "Fail" THEN "ValueError" ELSE "JsonPatchException")
            /\ fixlog' = fixlog
  /\ UNCHANGED << all_policies_file, lint_vars, todo, cur, fixed_policies,
                  skipped_policies, files, other_vars >>

\* open(name, 'w') and json.dump on the patch directory
WriteFile(name, document) ==
  files' = [i \in 1..Len(SelectSeq(files, LAMBDA f : f.name # name)) + 1 |->
              IF i <= Len(SelectSeq(files, LAMBDA f : f.name # name))
              THEN SelectSeq(files, LAMBDA f : f.name # name)[i]
              ELSE [name |-> name, document |-> document]]

\* generate_patches, line 311
SavePatch ==
  /\ pc = "gen_save_patch"
  /\ WriteFile(<<cur.key, "patch">>, patch_file(cur.key, cur.patch))
  /\ pc' = AfterStep("gen_save_patch")
  /\ UNCHANGED << all_policies_file, lint_vars, todo, cur, fixed_policies,
                  skipped_policies, fixlog, err, other_vars >>

\* generate_patches, line 312
SavePatched ==
  /\ pc = "gen_save_patched"
  /\ WriteFile(<<cur.key, "patched">>, cur.applied)
  /\ pc' = AfterStep("gen_save_patched")
  /\ UNCHANGED << all_policies_file, lint_vars, todo, cur, fixed_policies,
                  skipped_policies, fixlog, err, other_vars >>

\* generate_patches, line 313
SaveReverse ==
  /\ pc = "gen_save_reverse"
  /\ WriteFile(<<cur.key, "reverse-patch">>, reverse_patch_file(cur.key, cur.reverse))
  /\ pc' = AfterStep("gen_save_reverse")
  /\ UNCHANGED << all_policies_file, lint_vars, todo, cur, fixed_policies,
                  skipped_policies, fixlog, err, other_vars >>

\* fix_invalid_policies after the role loop: the limited custom role
FixFinish ==
  /\ pc = "fix_loop"
  /\ todo = <<>>
  /\ WriteFile(<<"custom-role", "role">>, custom_role(fixed_policies))
  /\ pc' = "done"
  /\ UNCHANGED << all_policies_file, lint_vars, todo, cur, fixed_policies,
                  skipped_policies, fixlog, err, other_vars >>

Next ==
  \/ Validate
  \/ ValidateSimilarity
  \/ FixBegin
  \/ FixNextRole
  \/ GenMake
  \/ GenTestPatch
  \/ GenTestReverse
  \/ SavePatch
  \/ SavePatched
  \/ SaveReverse
  \/ FixFinish

Spec == Init /\ [][Next]_vars

(***************************************************************************)
(* RoleAttributeExtractor (team_manager)                                   *)
(***************************************************************************)

\* '${roleAttribute/', the opening of a placeholder
RoleAttrOpen ==
  << "$", "{", "r", "o", "l", "e", "A", "t", "t", "r", "i", "b", "u", "t",
     "e", "/" >>

CaptureTarget ==
  << "_", "_", "C", "A", "P", "T", "U", "R", "E", "_", "T", "A", "R", "G",
     "E", "T", "_", "_" >>

OtherAttr ==
  << "_", "_", "O", "T", "H", "E", "R", "_", "A", "T", "T", "R", "_", "_" >>

Wildcard ==
  << "_", "_", "W", "I", "L", "D", "C", "A", "R", "D", "_", "_" >>

\* escaped_chars, in the order of the loop
EscapedChars == << ".", "^", "$", "+", "?", "|", "\\", "(", ")", "[", "]", "{", "}" >>

RECURSIVE FindKeysFrom(_, _)
\* The keys of the placeholders of resource, the first being at k (0: none)
FindKeysFrom(resource, k) ==
  IF k = 0 THEN <<>>
  ELSE <<SubSeq(resource, k + Len(RoleAttrOpen),
                FindFrom(resource, "}", k + Len(RoleAttrOpen)) - 1)>>
       \o FindKeysFrom(resource,
                       FindBraced(resource, RoleAttrOpen, 1,
                                  FindFrom(resource, "}", k + Len(RoleAttrOpen)) + 1))

\* re.findall(r'\$\{roleAttribute/([^}]+)\}', resource), scanning from i
FindKeys(resource, i) == FindKeysFrom(resource, FindBraced(resource, RoleAttrOpen, 1, i))

\* Lines 34-42: the target placeholder, the other placeholders and the
\* wildcards are replaced by their stand-ins
WithStandIns(resource, attr_key) ==
  ReplaceAll(SubBraced(ReplaceAll(resource, RoleAttrOpen \o attr_key \o <<"}">>,
                                  CaptureTarget),
                       RoleAttrOpen, 1, OtherAttr),
             <<"*">>, Wildcard)

RECURSIVE EscapeLoop(_, _)
\* Lines 46-48: for char in escaped_chars: pattern = pattern.replace(char, '\\' + char).
\* Each step replaces single characters, so the loop works on every
\* character of the pattern by itself: a character that is chars[k] becomes
\* a backslash and the character, and the loop goes on from chars[k + 1].
EscapeLoop(pattern, chars) ==
  IF Len(pattern) > 1
  THEN EscapeLoop(SubSeq(pattern, 1, Len(pattern) \div 2), chars)
       \o EscapeLoop(SubSeq(pattern, Len(pattern) \div 2 + 1, Len(pattern)), chars)
  ELSE IF pattern = <<>> \/ FindFrom(chars, pattern[1], 1) = 0 THEN pattern
  ELSE EscapeLoop(<<"\\", pattern[1]>>,
                  SubSeq(chars, FindFrom(chars, pattern[1], 1) + 1, Len(chars)))

\* Lines 50-52: the stand-ins become ([^:]+), [^:]+ and .*
FromStandIns(pattern, target, other) ==
  ReplaceAll(ReplaceAll(ReplaceAll(pattern, CaptureTarget, target), OtherAttr, other),
             Wildcard, <<".", "*">>)

\* Faulty variant: the group is put on the other placeholders.
FinalPatternCapturingOthers(resource, attr_key) ==
  <<"^">>
  \o FromStandIns(EscapeLoop(WithStandIns(resource, attr_key), EscapedChars),
                  NotColonText \o <<"+">>, <<"(">> \o NotColonText \o <<"+", ")">>)
  \o <<"$">>

\* Lines 31-55: final_pattern for one placeholder key of a resource
FinalPattern(resource, attr_key) ==
  <<"^">>
  \o FromStandIns(EscapeLoop(WithStandIns(resource, attr_key), EscapedChars),
                  <<"(">> \o NotColonText \o <<"+", ")">>, NotColonText \o <<"+">>)
  \o <<"$">>

\* Lines 56-61: the pattern is appended to the key's list unless it is there
AddPattern(attribute_patterns, attr_key, final_pattern) ==
  IF ~DictHas(attribute_patterns, attr_key)
  THEN DictPut(attribute_patterns, attr_key, <<final_pattern>>)
  ELSE IF final_pattern \in Range(DictGet(attribute_patterns, attr_key))
  THEN attribute_patterns
  ELSE DictPut(attribute_patterns, attr_key,
               Append(DictGet(attribute_patterns, attr_key), final_pattern))

RECURSIVE DiscoverKeys(_, _, _)
\* The loop over roleattr_matches of one resource (lines 30-61)
DiscoverKeys(resource, keys, attribute_patterns) ==
  IF keys = <<>> THEN attribute_patterns
  ELSE DiscoverKeys(resource, Tail(keys),
                    AddPattern(attribute_patterns, Head(keys),
                               FinalPattern(resource, Head(keys))))

RECURSIVE DiscoverResources(_, _)
\* The loop over the resources of one statement (lines 23-61)
DiscoverResources(resources, attribute_patterns) ==
  IF resources = <<>> THEN attribute_patterns
  ELSE DiscoverResources(Tail(resources),
                         DiscoverKeys(Head(resources), FindKeys(Head(resources), 1),
                                      attribute_patterns))

RECURSIVE DiscoverStatements(_, _)
\* The loop over the statements of the template (lines 20-61)
DiscoverStatements(policy, attribute_patterns) ==
  IF policy = <<>> THEN attribute_patterns
  ELSE DiscoverStatements(Tail(policy),
                          DiscoverResources(GetList(Head(policy), "resources"),
                                            attribute_patterns))

\* discover_attribute_patterns(template_data): key -> list of patterns
discover_attribute_patterns(template_data) ==
  DiscoverStatements(GetList(template_data, "policy"), <<>>)

\* '${' in value
Contains(s, part) == \E i \in 1..Len(s) : StartsAt(s, part, i)

\* Faulty variant: a pattern whose captured value is rejected is passed over
\* and the next pattern is tried.
FirstMatchingAccepted(patterns, resource) ==
  FirstOf({n \in 1..Len(patterns) :
             /\ ReMatch(patterns[n], resource).ok /\ ReMatch(patterns[n], resource).has
             /\ ReMatch(patterns[n], resource).cap \notin {<<>>, <<"*">>}})

\* Lines 92-100: the first pattern of the list that matches and has a group 1
FirstMatching(patterns, resource) ==
  FirstOf({n \in 1..Len(patterns) :
             ReMatch(patterns[n], resource).ok /\ ReMatch(patterns[n], resource).has})

\* Faulty variant: every captured text is added.
AddValueUnfiltered(values, value) == values \cup {value}

\* Lines 101-103: value and value != '*' and '${' not in value
AddValue(values, value) ==
  IF value # <<>> /\ value # <<"*">> /\ ~Contains(value, <<"$", "{">>)
  THEN values \cup {value}
  ELSE values

\* Lines 90-105 for one key, n being the first matching pattern (0: none)
ValuesAfter(values, resource, patterns, n) ==
  IF n = 0 THEN values ELSE AddValue(values, ReMatch(patterns[n], resource).cap)

\* Lines 89-105: attribute_values after one resource
ExtractResource(attribute_values, resource, attribute_patterns) ==
  [k \in 1..Len(attribute_values) |->
     [key   |-> attribute_values[k].key,
      value |-> ValuesAfter(attribute_values[k].value, resource,
                            attribute_patterns[k].value,
                            FirstMatching(attribute_patterns[k].value, resource))]]

RECURSIVE ExtractResources(_, _, _)
\* The loop over all_resources of one statement (lines 88-105)
ExtractResources(all_resources, attribute_patterns, attribute_values) ==
  IF all_resources = <<>> THEN attribute_values
  ELSE ExtractResources(Tail(all_resources), attribute_patterns,
                        ExtractResource(attribute_values, Head(all_resources),
                                        attribute_patterns))

RECURSIVE ExtractStatements(_, _, _)
\* The loop over the statements of the role (lines 79-105)
ExtractStatements(policy, attribute_patterns, attribute_values) ==
  IF policy = <<>> THEN attribute_values
  ELSE ExtractStatements(Tail(policy), attribute_patterns,
                         ExtractResources(GetList(Head(policy), "resources")
                                            \o GetList(Head(policy), "notResources"),
                                          attribute_patterns, attribute_values))

\* extract_from_role_with_patterns(role_data, attribute_patterns): key -> set
\* of values, the keys with an empty set left out
extract_from_role_with_patterns(role_data, attribute_patterns) ==
  SelectSeq(ExtractStatements(GetList(role_data, "policy"), attribute_patterns,
                              [k \in 1..Len(attribute_patterns) |->
                                 [key |-> attribute_patterns[k].key, value |-> {}]]),
            LAMBDA kv : kv.value # {})

(***************************************************************************)
(* TeamManager: team patches                                               *)
(***************************************************************************)

\* The field k of document d is present with the JSON value null
IsNull(d, k) == "null" \in DOMAIN d /\ k \in d.null

\* extract_from_role_with_patterns raises: role_data.get('policy', []) is
\* None and the loop of line 81 iterates over it (TypeError)
ExtractRaises(role_data) == IsNull(role_data, "policy")

\* Lines 472-476: the first team of data with the key, 0 for None
FindTeam(data, team_key) ==
  FirstOf({i \in 1..Len(data.teams) : data.teams[i].key = team_key})

\* roles_lookup = {role['key']: role for role in all_roles}: the last role
\* with the key, 0 when the key is not in the dict
RolesLookup(all_roles, role_key) ==
  IF \E i \in 1..Len(all_roles) : all_roles[i].key = role_key
  THEN CHOOSE i \in 1..Len(all_roles) :
         /\ all_roles[i].key = role_key
         /\ \A j \in (i + 1)..Len(all_roles) : all_roles[j].key # role_key
  ELSE 0

RECURSIVE TeamRoleObjects(_, _)
\* Lines 498-501: the role objects of the team's role keys that are in
\* roles_lookup
TeamRoleObjects(team_roles, all_roles) ==
  IF team_roles = <<>> THEN <<>>
  ELSE (IF RolesLookup(all_roles, Head(team_roles)) = 0 THEN <<>>
        ELSE <<all_roles[RolesLookup(all_roles, Head(team_roles))]>>)
       \o TeamRoleObjects(Tail(team_roles), all_roles)

\* Lines 524-527: team_attribute_values[attr_type].update(values); the keys
\* of role_values are keys of the patterns, which are all there already
MergeValues(team_attribute_values, role_values) ==
  [k \in 1..Len(team_attribute_values) |->
     [key   |-> team_attribute_values[k].key,
      value |-> team_attribute_values[k].value
                  \cup (IF DictHas(role_values, team_attribute_values[k].key)
                        THEN DictGet(role_values, team_attribute_values[k].key)
                        ELSE {})]]

RECURSIVE MergeRoles(_, _, _)
\* Lines 520-527: the loop over team_role_objects
MergeRoles(team_role_objects, attribute_patterns, team_attribute_values) ==
  IF team_role_objects = <<>> THEN team_attribute_values
  ELSE MergeRoles(Tail(team_role_objects), attribute_patterns,
                  MergeValues(team_attribute_values,
                              extract_from_role_with_patterns(Head(team_role_objects),
                                                              attribute_patterns)))

\* Lines 513-530: the values of the team, the keys with an empty set removed
TeamAttributeValues(team_role_objects, attribute_patterns) ==
  SelectSeq(MergeRoles(team_role_objects, attribute_patterns,
                       [k \in 1..Len(attribute_patterns) |->
                          [key |-> attribute_patterns[k].key, value |-> {}]]),
            LAMBDA kv : kv.value # {})

\* The least of a non-empty set of texts
Least(values) == CHOOSE x \in values : \A y \in values \ {x} : StrLess(x, y)

RECURSIVE SortedList(_)
\* sorted(list(values)) for a set of texts
SortedList(values) ==
  IF values = {} THEN <<>>
  ELSE <<Least(values)>> \o SortedList(values \ {Least(values)})

\* Faulty variant: the existing bindings of the team are not looked at.
AttributeInstructionAlwaysAdd(attribute, values, existing_role_attributes) ==
  [kind   |-> "addRoleAttribute",
   key    |-> attribute,
   values |-> SortedList(values)]

\* Lines 773-784: the instruction for one attribute
AttributeInstruction(attribute, values, existing_role_attributes) ==
  [kind   |-> IF DictHas(existing_role_attributes, attribute)
              THEN "updateRoleAttribute" ELSE "addRoleAttribute",
   key    |-> attribute,
   values |-> SortedList(values)]

\* Lines 762-784: the instructions of a patch
Instructions(template_role_keys, team_attribute_values, existing_role_attributes) ==
  (IF template_role_keys # <<>>
   THEN <<[kind |-> "addCustomRoles", values |-> SortedList(Range(template_role_keys))]>>
   ELSE <<>>)
  \o [k \in 1..Len(team_attribute_values) |->
        AttributeInstruction(team_attribute_values[k].key, team_attribute_values[k].value,
                             existing_role_attributes)]

\* '_patch.json'
PatchSuffix == << "_", "p", "a", "t", "c", "h", ".", "j", "s", "o", "n" >>

\* Line 788: f"{team_key}_{timestamp}_patch.json"
PatchFilename(team_key, timestamp) == team_key \o <<"_">> \o timestamp \o PatchSuffix

\* _create_team_patch_file: the document that is written (created_at and
\* template_sources, a wall-clock stamp and file paths, are left out)
PatchData(template_role_keys, team_key, team_roles, team_attribute_values, existing_role_attributes) ==
  [team_key       |-> team_key,
   type           |-> "team_roleAttribute_patch",
   roles_analyzed |-> [i \in 1..Len(team_roles) |-> team_roles[i].key],
   extracted_values |->
     [k \in 1..Len(team_attribute_values) |->
        [key |-> team_attribute_values[k].key,
         value |-> SortedList(team_attribute_values[k].value)]],
   existing_role_attributes |-> existing_role_attributes,
   instructions   |-> Instructions(template_role_keys, team_attribute_values,
                                   existing_role_attributes)]

\* How the body of the team loop ends for one team key
TeamOutcome(kind, reason, patch) == [kind |-> kind, reason |-> reason, patch |-> patch]

\* Faulty variant: the exception is not caught in the body of the loop.
ProcessRolesUncaught(team_data, team_role_objects, attribute_patterns, template_role_keys) ==
  IF \E i \in 1..Len(team_role_objects) : ExtractRaises(team_role_objects[i])
  THEN TeamOutcome("raised", "exception", <<>>)
  ELSE TeamOutcome("generated", "",
                   PatchData(template_role_keys, team_data.key, team_role_objects,
                             TeamAttributeValues(team_role_objects, attribute_patterns),
                             GetList(team_data, "roleAttributes")))

\* Lines 512-552, the team having role objects
ProcessRoles(team_data, team_role_objects, attribute_patterns, template_role_keys) ==
  IF \E i \in 1..Len(team_role_objects) : ExtractRaises(team_role_objects[i])
  THEN TeamOutcome("failed", "exception", <<>>)
  ELSE TeamOutcome("generated", "",
                   PatchData(template_role_keys, team_data.key, team_role_objects,
                             TeamAttributeValues(team_role_objects, attribute_patterns),
                             GetList(team_data, "roleAttributes")))

\* Faulty variant: a team none of whose roles is in the cache gets a patch.
ProcessFoundNeverSkipping(team_data, all_roles, attribute_patterns, template_role_keys) ==
  IF GetList(team_data, "roles") = <<>>
  THEN TeamOutcome("skipped", "no_assigned_roles", <<>>)
  ELSE ProcessRoles(team_data, TeamRoleObjects(team_data.roles, all_roles),
                    attribute_patterns, template_role_keys)

\* Lines 487-552, the team being found
ProcessFound(team_data, all_roles, attribute_patterns, template_role_keys) ==
  IF GetList(team_data, "roles") = <<>>
  THEN TeamOutcome("skipped", "no_assigned_roles", <<>>)
  ELSE IF TeamRoleObjects(team_data.roles, all_roles) = <<>>
  THEN TeamOutcome("skipped", "no_role_objects", <<>>)
  ELSE ProcessRoles(team_data, TeamRoleObjects(team_data.roles, all_roles),
                    attribute_patterns, template_role_keys)

\* The body of the team loop (lines 470-560 and 624-713)
ProcessTeamKey(data, team_key, attribute_patterns, template_role_keys) ==
  IF FindTeam(data, team_key) = 0
  THEN TeamOutcome("failed", "team_not_found", <<>>)
  ELSE ProcessFound(data.teams[FindTeam(data, team_key)], data.roles,
                    attribute_patterns, template_role_keys)

RECURSIVE Split(_, _)
\* s.split(c)
Split(s, c) ==
  IF FindFrom(s, c, 1) = 0 THEN <<s>>
  ELSE <<SubSeq(s, 1, FindFrom(s, c, 1) - 1)>>
       \o Split(SubSeq(s, FindFrom(s, c, 1) + 1, Len(s)), c)

\* s.endswith(suffix)
EndsWith(s, suffix) ==
  Len(s) >= Len(suffix) /\ SubSeq(s, Len(s) - Len(suffix) + 1, Len(s)) = suffix

\* Lines 856-861: the team key apply_patches reads from a file name, <<>>
\* when the file is passed over
ParsedTeamKey(filename, team_keys) ==
  IF EndsWith(filename, PatchSuffix)
     /\ Len(Split(filename, "_")) >= 3
     /\ Split(filename, "_")[1] \in Range(team_keys)
  THEN <<Split(filename, "_")[1]>>
  ELSE <<>>

\* Lines 873-877: the file is selected for its team unless a greater name is
SelectFile(selected_patch_files, team_key, filename) ==
  IF ~DictHas(selected_patch_files, team_key)
     \/ StrLess(DictGet(selected_patch_files, team_key), filename)
  THEN DictPut(selected_patch_files, team_key, filename)
  ELSE selected_patch_files

RECURSIVE SelectLoop(_, _, _)
\* Lines 855-877: the loop over os.listdir(patch_dir)
SelectLoop(listing, team_keys, selected_patch_files) ==
  IF listing = <<>> THEN selected_patch_files
  ELSE SelectLoop(Tail(listing), team_keys,
                  IF ParsedTeamKey(Head(listing), team_keys) = <<>>
                  THEN selected_patch_files
                  ELSE SelectFile(selected_patch_files,
                                  ParsedTeamKey(Head(listing), team_keys)[1],
                                  Head(listing)))

(***************************************************************************)
(* Catalog matching on its own: one call of does_pattern_match             *)
(***************************************************************************)

\* ---- bounds ----
MaxPatternLen == 3    \* characters of a generated pattern
MaxResourceLen == 3   \* characters of a generated resource

ProjEnvAll    == << "p", "r", "o", "j", "/", "*", ":", "e", "n", "v", "/", "*" >>
ProjP1EnvE1   == << "p", "r", "o", "j", "/", "p", "1", ":", "e", "n", "v", "/", "e", "1" >>
ProjP1OtherE1 == << "p", "r", "o", "j", "/", "p", "1", ":", "o", "t", "h", "e", "r", "/", "e", "1" >>
ProjP1        == << "p", "r", "o", "j", "/", "p", "1" >>
ProjP1Newline == << "p", "r", "o", "j", "/", "p", "1", "\n" >>
ProjP1EnvE1Flag == << "p", "r", "o", "j", "/", "p", "1", ":", "e", "n", "v", "/", "e", "1", ":", "f", "l", "a", "g", "/", "f" >>
ProjP1Tagged  == << "p", "r", "o", "j", "/", "p", "1", ";", "t", "a", "g", "=", "v" >>
ProjP1TaggedEnvE1 == << "p", "r", "o", "j", "/", "p", "1", ";", "t", "a", "g", "=", "v", ":", "e", "n", "v", "/", "e", "1" >>

\* The patterns and resources of the calls: named ones, and all the short
\* texts over a small alphabet
MatchPatterns ==
  {ProjEnvAll, ProjP1, ProjAll} \cup SeqsUpTo({"a", "*", ":"}, MaxPatternLen)

MatchResources ==
  {ProjP1EnvE1, ProjP1OtherE1, ProjP1, ProjP1Newline, ProjP1EnvE1Flag, ProjP1Tagged,
   ProjP1TaggedEnvE1}
    \cup SeqsUpTo({"a", ":", "\n"}, MaxResourceLen)

InitMatch ==
  /\ LinterStart(<<>>)
  /\ ext = ExtIdle
  /\ \E pattern \in MatchPatterns, resource \in MatchResources :
       match = [MatchIdle EXCEPT !.pattern = pattern, !.resource = resource]
  /\ TeamsIdle
  /\ ToolsIdle

\* does_pattern_match(pattern, resource) is called and returns
CallMatch ==
  /\ ~match.called
  /\ match' = [match EXCEPT !.called = TRUE,
                            !.result = does_pattern_match(match.pattern, match.resource)]
  /\ UNCHANGED << all_policies_file, lint_vars, pc, fix_vars, ext, batch, patch_dir, apply, cli, http >>

NextMatch == CallMatch

SpecMatch == InitMatch /\ [][NextMatch]_vars

(***************************************************************************)
(* The attribute extractor on its own: discover the patterns of a          *)
(* template, then extract from a role                                      *)
(***************************************************************************)

\* ---- bounds ----
MaxTemplateResources == 1   \* resources of the template's statement
MaxRoleResources == 1       \* resources of the role's statement

TemplatePE ==
  << "p", "r", "o", "j", "/", "$", "{", "r", "o", "l", "e", "A", "t", "t",
     "r", "i", "b", "u", "t", "e", "/", "p", "}", ":", "e", "n", "v", "/",
     "$", "{", "r", "o", "l", "e", "A", "t", "t", "r", "i", "b", "u", "t",
     "e", "/", "e", "}" >>

TemplateProject ==
  << "p", "r", "o", "j", "/", "$", "{", "r", "o", "l", "e", "A", "t", "t",
     "r", "i", "b", "u", "t", "e", "/", "p", "r", "o", "j", "e", "c", "t",
     "}", ":", "e", "n", "v", "/", "*" >>

TemplateAllE ==
  << "p", "r", "o", "j", "/", "*", ":", "e", "n", "v", "/", "$", "{", "r",
     "o", "l", "e", "A", "t", "t", "r", "i", "b", "u", "t", "e", "/", "e",
     "}" >>

TemplateP ==
  << "p", "r", "o", "j", "/", "$", "{", "r", "o", "l", "e", "A", "t", "t",
     "r", "i", "b", "u", "t", "e", "/", "p", "}" >>

TemplateDotted ==
  << "p", "r", "o", "j", "/", "a", ".", "b", ":", "e", "n", "v", "/", "$",
     "{", "r", "o", "l", "e", "A", "t", "t", "r", "i", "b", "u", "t", "e",
     "/", "e", "}" >>

ProjAcmeEnvProd ==
  << "p", "r", "o", "j", "/", "a", "c", "m", "e", ":", "e", "n", "v", "/",
     "p", "r", "o", "d" >>

ProjBetaEnvTest ==
  << "p", "r", "o", "j", "/", "b", "e", "t", "a", ":", "e", "n", "v", "/",
     "t", "e", "s", "t" >>

ProjAcme ==
  << "p", "r", "o", "j", "/", "a", "c", "m", "e" >>

ProjAllEnvProd ==
  << "p", "r", "o", "j", "/", "*", ":", "e", "n", "v", "/", "p", "r", "o",
     "d" >>

ProjDottedEnvProd ==
  << "p", "r", "o", "j", "/", "a", ".", "b", ":", "e", "n", "v", "/", "p",
     "r", "o", "d" >>

ProjAcmeEnvProdFlag ==
  << "p", "r", "o", "j", "/", "a", "c", "m", "e", ":", "e", "n", "v", "/",
     "p", "r", "o", "d", ":", "f", "l", "a", "g", "/", "f", "1" >>

TeamEnvProd ==
  << "t", "e", "a", "m", "/", "x", ":", "e", "n", "v", "/", "p", "r", "o",
     "d" >>

TemplatePAll ==
  << "p", "r", "o", "j", "/", "$", "{", "r", "o", "l", "e", "A", "t", "t",
     "r", "i", "b", "u", "t", "e", "/", "p", "}", ":", "e", "n", "v", "/",
     "*" >>

TemplateAllP ==
  << "p", "r", "o", "j", "/", "*", ":", "e", "n", "v", "/", "$", "{", "r",
     "o", "l", "e", "A", "t", "t", "r", "i", "b", "u", "t", "e", "/", "p",
     "}" >>

TemplateResources ==
  {TemplatePE, TemplateProject, TemplateAllE, TemplateP, TemplateDotted, ProjEnvAll,
   TemplatePAll}

RoleResources ==
  {ProjAcmeEnvProd, ProjBetaEnvTest, ProjAcme, ProjAllEnvProd, ProjDottedEnvProd,
   ProjAcmeEnvProdFlag, TeamEnvProd, TemplatePE}

\* A template whose two resources give the key p two patterns
TemplateTwoPatterns ==
  [key |-> "template",
   policy |-> <<[resources |-> <<TemplatePAll, TemplateAllP>>, effect |-> "allow"]>>]

Templates ==
  {[key |-> "template", policy |-> <<[resources |-> q, effect |-> "allow"]>>] :
     q \in SeqsUpTo(TemplateResources, MaxTemplateResources)}
  \cup {TemplateTwoPatterns}

TeamRoles ==
  {[key |-> "role", policy |-> <<[resources |-> q, effect |-> "allow"]>>] :
     q \in SeqsUpTo(RoleResources, MaxRoleResources)}
  \cup
  {[key |-> "role", policy |-> <<[notResources |-> q, effect |-> "deny"]>>] :
     q \in SeqsUpTo(RoleResources, MaxRoleResources)}

InitExtract ==
  /\ LinterStart(<<>>)
  /\ match = MatchIdle
  /\ \E template \in Templates, role \in TeamRoles :
       ext = [ExtIdle EXCEPT !.template = template, !.role = role, !.step = "start"]
  /\ TeamsIdle
  /\ ToolsIdle

\* discover_attribute_patterns(template_data)
Discover ==
  /\ ext.step = "start"
  /\ ext' = [ext EXCEPT !.step = "discovered",
                        !.patterns = discover_attribute_patterns(ext.template)]
  /\ UNCHANGED << all_policies_file, lint_vars, pc, fix_vars, match, batch, patch_dir, apply, cli, http >>

\* extract_from_role_with_patterns(role_data, attribute_patterns)
Extract ==
  /\ ext.step = "discovered"
  /\ ext' = [ext EXCEPT !.step = "extracted",
                        !.values = extract_from_role_with_patterns(ext.role, ext.patterns)]
  /\ UNCHANGED << all_policies_file, lint_vars, pc, fix_vars, match, batch, patch_dir, apply, cli, http >>

NextExtract == Discover \/ Extract

SpecExtract == InitExtract /\ [][NextExtract]_vars

(***************************************************************************)
(* The team manager on its own: a batch of team patches is generated, and  *)
(* patches are applied                                                     *)
(***************************************************************************)

\* ---- bounds ----
MaxTeamKeys == 2   \* team keys of a batch
MaxClock == 2      \* seconds the clock shows while the batch runs

\* strftime('%Y%m%d_%H%M%S') at the seconds of the model, in time order
Timestamps ==
  << <<"1", "_", "1">>, <<"1", "_", "2">>, <<"2", "_", "0">>, <<"2", "_", "1">> >>

\* The cached data: roles r1, r2 with values for the placeholders, r3 whose
\* policy is null, r4 without a value; team a holds p already, team b has no
\* role, team c a role that is not in the cache, team d the role r3, team a_b
\* the role r4.
TeamData ==
  [roles |->
     << [key |-> "r1", policy |-> <<[resources |-> <<ProjAcmeEnvProd>>, effect |-> "allow"]>>],
        [key |-> "r2", policy |-> <<[resources |-> <<ProjBetaEnvTest>>, effect |-> "allow"]>>],
        [key |-> "r3", null |-> {"policy"}],
        [key |-> "r4", policy |-> <<[resources |-> <<TeamEnvProd>>, effect |-> "allow"]>>] >>,
   teams |->
     << [key |-> <<"a">>, roles |-> <<"r1", "r2">>,
         roleAttributes |-> <<[key |-> <<"p">>, value |-> <<<<"o", "l", "d">>>>]>>],
        [key |-> <<"b">>, roles |-> <<>>],
        [key |-> <<"c">>, roles |-> <<"gone">>],
        [key |-> <<"d">>, roles |-> <<"r1", "r3">>],
        [key |-> <<"a", "_", "b">>, roles |-> <<"gone", "r4">>] >>]

\* The team keys a batch may be asked for; z is no team
BatchTeamKeys == {<<"a">>, <<"b">>, <<"c">>, <<"d">>, <<"a", "_", "b">>, <<"z">>}

\* The template files of a call: one for generate_team_patches, several for
\* generate_team_patches_multi_template; the last has no placeholder
TemplateFiles ==
  { <<[key |-> <<"t", "1">>, policy |-> <<[resources |-> <<TemplatePE>>]>>]>>,
    <<[key |-> <<"t", "2">>, policy |-> <<[resources |-> <<TemplateProject>>]>>],
      [key |-> <<"t", "1">>, policy |-> <<[resources |-> <<TemplatePE>>]>>],
      [key |-> <<"t", "2">>, policy |-> <<[resources |-> <<TemplateProject>>]>>]>>,
    <<[key |-> <<"t", "3">>, policy |-> <<[resources |-> <<ProjEnvAll>>]>>]>> }

\* A patch file an earlier batch left for team a
EarlierPatch ==
  [name |-> PatchFilename(<<"a">>, Timestamps[1]),
   document |-> PatchData(<<<<"t", "0">>>>, <<"a">>, <<>>, <<>>, <<>>)]

InitTeams ==
  /\ LinterStart(<<>>)
  /\ match = MatchIdle
  /\ ext = ExtIdle
  /\ apply = ApplyIdle
  /\ ToolsIdle
  /\ \E templates \in TemplateFiles, team_keys \in SeqsUpTo(BatchTeamKeys, MaxTeamKeys) :
       batch = [BatchIdle EXCEPT !.step = "called", !.data = TeamData,
                                 !.templates = templates, !.team_keys = team_keys,
                                 !.now = 1]
  /\ patch_dir \in {{}, {EarlierPatch}}

RECURSIVE MergeKey(_, _, _)
\* Lines 446-448: the patterns of a key that are not there yet are appended
MergeKey(all_attribute_patterns, attr_key, patterns) ==
  IF patterns = <<>> THEN all_attribute_patterns
  ELSE MergeKey(AddPattern(all_attribute_patterns, attr_key, Head(patterns)),
                attr_key, Tail(patterns))

RECURSIVE MergeTemplate(_, _)
\* Lines 442-448: the patterns of one template are merged
MergeTemplate(all_attribute_patterns, template_patterns) ==
  IF template_patterns = <<>> THEN all_attribute_patterns
  ELSE MergeTemplate(MergeKey(all_attribute_patterns, Head(template_patterns).key,
                              Head(template_patterns).value),
                     Tail(template_patterns))

RECURSIVE AllAttributePatterns(_, _)
\* Lines 435-448: the loop over the template files
AllAttributePatterns(templates, all_attribute_patterns) ==
  IF templates = <<>> THEN all_attribute_patterns
  ELSE AllAttributePatterns(Tail(templates),
                            MergeTemplate(all_attribute_patterns,
                                          discover_attribute_patterns(Head(templates))))

\* Lines 418-467 and 595-621: the templates are analyzed; without a pattern
\* the call raises ValueError
BatchStart ==
  /\ batch.step = "called"
  /\ \E all_attribute_patterns \in {AllAttributePatterns(batch.templates, <<>>)} :
       batch' = IF all_attribute_patterns = <<>>
                THEN [batch EXCEPT !.step = "raised"]
                ELSE [batch EXCEPT !.step = "loop", !.i = 1,
                         !.attribute_patterns = all_attribute_patterns,
                         !.template_role_keys =
                            [k \in 1..Len(batch.templates) |-> batch.templates[k].key]]
  /\ UNCHANGED << all_policies_file, lint_vars, pc, fix_vars, match, ext, patch_dir, apply, cli, http >>

\* open(patch_filepath, 'w') and json.dump in output/patches
WritePatch(name, document) ==
  patch_dir' = {f \in patch_dir : f.name # name} \cup {[name |-> name, document |-> document]}

\* One pass of the team loop (lines 469-560 and 623-713); the clock may have
\* moved on when the patch file is named
ProcessTeam ==
  /\ batch.step = "loop"
  /\ batch.i <= Len(batch.team_keys)
  /\ \E team_key \in {batch.team_keys[batch.i]} :
     \E o \in {ProcessTeamKey(batch.data, team_key, batch.attribute_patterns,
                              batch.template_role_keys)} :
     \E now \in batch.now..MaxClock :
       /\ o.kind # "generated" => now = batch.now
       /\ IF o.kind = "generated"
          THEN WritePatch(PatchFilename(team_key, Timestamps[now]), o.patch)
          ELSE patch_dir' = patch_dir
       /\ batch' =
            [batch EXCEPT
               !.i = @ + 1,
               !.now = now,
               !.outcomes = Append(@, [team_key |-> team_key, kind |-> o.kind,
                                       reason |-> o.reason]),
               !.generated_patches =
                  IF o.kind = "generated"
                  THEN Append(@, [team_key |-> team_key,
                                  patch_file |-> PatchFilename(team_key, Timestamps[now])])
                  ELSE @,
               !.failed_teams =
                  IF o.kind = "failed"
                  THEN Append(@, [team_key |-> team_key, reason |-> o.reason]) ELSE @,
               !.skipped_teams =
                  IF o.kind = "skipped"
                  THEN Append(@, [team_key |-> team_key, reason |-> o.reason]) ELSE @]
  /\ UNCHANGED << all_policies_file, lint_vars, pc, fix_vars, match, ext, apply, cli, http >>

\* Lines 562-575 and 715-726: the result of the batch
BatchReturn ==
  /\ batch.step = "loop"
  /\ batch.i > Len(batch.team_keys)
  /\ batch' = [batch EXCEPT
                 !.step = "returned",
                 !.result = [teams_processed |-> Len(batch.team_keys),
                             patches_generated |-> Len(batch.generated_patches),
                             failed_teams |-> batch.failed_teams,
                             skipped_teams |-> batch.skipped_teams]]
  /\ UNCHANGED << all_policies_file, lint_vars, pc, fix_vars, match, ext, patch_dir, apply, cli, http >>

\* The team keys apply_patches may be asked for
ApplyTeamKeys ==
  {<<<<"a">>>>, <<<<"a", "_", "b">>>>, <<<<"a">>, <<"a", "_", "b">>>>, <<<<"b">>>>}

\* The orders in which os.listdir may give the names of a directory
Listings(names) ==
  {q \in [1..Cardinality(names) -> names] :
     \A m, n \in 1..Cardinality(names) : m # n => q[m] # q[n]}

\* json.load of the file with the name
ReadPatch(name) == (CHOOSE f \in patch_dir : f.name = name).document

\* apply_patches: the files are selected, and the instructions of the
\* selected files are handed to api_client.apply_team_patch (lines 855-926)
ApplyPatches ==
  /\ batch.step = "returned"
  /\ ~apply.called
  /\ \E team_keys \in ApplyTeamKeys,
        listing \in Listings({f.name : f \in patch_dir}) :
     \E selected_patch_files \in {SelectLoop(listing, team_keys, <<>>)} :
       apply' =
         [called |-> TRUE,
          team_keys |-> team_keys,
          selected_patch_files |-> selected_patch_files,
          submitted |->
            [k \in 1..Len(selected_patch_files) |->
               [team_key |-> selected_patch_files[k].key,
                instructions |-> ReadPatch(selected_patch_files[k].value).instructions]],
          err |-> IF selected_patch_files = <<>> THEN "ValueError" ELSE ""]
  /\ UNCHANGED << all_policies_file, lint_vars, pc, fix_vars, match, ext, batch, patch_dir, cli, http >>

NextTeams == BatchStart \/ ProcessTeam \/ BatchReturn \/ ApplyPatches

SpecTeams == InitTeams /\ [][NextTeams]_vars

(***************************************************************************)
(* Properties of the policy linter                                         *)
(***************************************************************************)

\* The roles as exported, and the report of the last validate for a role
ExportedRole(key) ==
  all_policies_file[CHOOSE i \in 1..Len(all_policies_file) : all_policies_file[i].key = key]

RoleReport(key) ==
  IF DictHas(invalid_policies, key) THEN DictGet(invalid_policies, key) ELSE <<>>

\* What generate_patches was handed for a key
LogOf(key) == fixlog[CHOOSE i \in 1..Len(fixlog) : fixlog[i].key = key]

HasLog(key) == \E i \in 1..Len(fixlog) : fixlog[i].key = key

FilesOfKind(kind) == {i \in 1..Len(files) : files[i].name[2] = kind}

Count(list, a) == Cardinality({i \in 1..Len(list) : list[i] = a})

\* The catalog entry the first resource of a statement is looked up in:
\* its position, 0 when no pattern matches, -1 for a statement without
\* resources
EntryOf(statement) ==
  IF StatementResources(statement) = <<>> THEN -1
  ELSE get_matching_resource_actions(StatementResources(statement)[1], Catalog)

\* An action that is neither * nor a verb of catalog entry e
NotInVerbList(e, a) == a # "*" /\ a \notin Range(Catalog[e].actions)

\* The actions validate flags in a statement looked up in entry e
FlaggedIn(statement, e) ==
  IF e = 0 THEN Range(StatementActions(statement))
  ELSE IF e > 0 THEN {a \in Range(StatementActions(statement)) : NotInVerbList(e, a)}
  ELSE {}

FlaggedActions(statement) == FlaggedIn(statement, EntryOf(statement))

IsMatched(statement) == EntryOf(statement) > 0

IsUnmatched(statement) == EntryOf(statement) = 0

OffendingIn(statement, e) == e = 0 \/ (e > 0 /\ FlaggedIn(statement, e) # {})

Offending(statement) == OffendingIn(statement, EntryOf(statement))

\* The catalog entries the statements of a policy are looked up in
EntriesOf(policy) == [j \in 1..Len(policy) |-> EntryOf(policy[j])]

\* The position, in the report of its role, of the record of statement j,
\* the entries of the statements being given
RecordIndexIn(policy, entries, j) ==
  Cardinality({k \in 1..j : OffendingIn(policy[k], entries[k])})

\* The position, in the report of its role, of the record of statement j
RecordIndex(policy, j) == RecordIndexIn(policy, EntriesOf(policy), j)

\* The record the report holds for statement j of a role (<<>> when none)
RecordAt(role, j, k) ==
  IF Offending(role.policy[j]) /\ k <= Len(RoleReport(role.key))
  THEN <<RoleReport(role.key)[k]>>
  ELSE <<>>

RecordOf(role, j) == RecordAt(role, j, RecordIndex(role.policy, j))

\* The same, the entries of the statements being given
RecordOfIn(role, entries, j) ==
  IF OffendingIn(role.policy[j], entries[j])
     /\ RecordIndexIn(role.policy, entries, j) <= Len(RoleReport(role.key))
  THEN <<RoleReport(role.key)[RecordIndexIn(role.policy, entries, j)]>>
  ELSE <<>>

ActionsOfRecord(rec) == IF rec = <<>> THEN <<>> ELSE StatementActions(rec[1])

ReportedActions(role, j) == ActionsOfRecord(RecordOf(role, j))

\* C1: for every role whose patches fix_invalid_policies has written,
\* applying the forward patch to the original policy gives the modified
\* policy, and applying the reverse patch to the modified policy gives the
\* original policy.
PatchRoundTrip ==
  /\ \A i \in FilesOfKind("patch") :
       /\ HasLog(files[i].name[1])
       /\ ApplyPatch(LogOf(files[i].name[1]).original, files[i].document.patch)
            = Done(LogOf(files[i].name[1]).modified)
  /\ \A i \in FilesOfKind("reverse-patch") :
       /\ HasLog(files[i].name[1])
       /\ ApplyPatch(LogOf(files[i].name[1]).modified, files[i].document.patch)
            = Done(LogOf(files[i].name[1]).original)

\* A role's forward and reverse patch are both written, and the forward
\* patch has more than one operation.
PatchRoundTripWitness ==
  \E i \in FilesOfKind("patch"), j \in FilesOfKind("reverse-patch") :
    /\ files[i].name[1] = files[j].name[1]
    /\ Len(files[i].document.patch) > 1

\* C2: no artifact of a role (forward patch, post-patch snapshot, reverse
\* patch) is in the patch directory unless test_patch and test_reverse_patch
\* have both passed for that role; when a check fails nothing of that role
\* is written.
PersistedOnlyAfterChecks ==
  /\ \A i \in 1..Len(files) :
       files[i].name[2] \in {"patch", "patched", "reverse-patch"} =>
         /\ HasLog(files[i].name[1])
         /\ LogOf(files[i].name[1]).passed = {"test_patch", "test_reverse_patch"}
  /\ \A k \in 1..Len(fixlog) :
       (pc = "raised" /\ cur.key = fixlog[k].key) =>
         \A i \in 1..Len(files) : files[i].name[1] # fixlog[k].key

\* The forward check passed, the reverse check failed, and the role has no
\* artifact.
PersistedOnlyAfterChecksWitness ==
  /\ pc = "raised"
  /\ cur.key # ""
  /\ HasLog(cur.key)
  /\ LogOf(cur.key).passed = {"test_patch"}
  /\ \A i \in 1..Len(files) : files[i].name[1] # cur.key

\* A statement without the actions of the set flagged, the others in their
\* order
Without(statement, flagged) ==
  IF flagged = {} THEN statement
  ELSE [statement EXCEPT ![ActionsKey(statement)] =
          SelectSeq(StatementActions(statement), LAMBDA a : a \notin flagged)]

WithoutFlagged(statement) == Without(statement, FlaggedActions(statement))

\* A policy without the flagged actions and without the statements that
\* are left with no action
ExpectedPolicy(policy) ==
  SelectSeq([j \in 1..Len(policy) |-> WithoutFlagged(policy[j])],
            LAMBDA st : StatementActions(st) # <<>>)

\* C3: for every fixed role the modified policy is the original policy
\* with, in each flagged statement, exactly the flagged invalid actions
\* removed and every statement left with no action dropped; the other
\* statements, and the order of statements and actions, are unchanged.
FixStripsExactlyFlagged ==
  \A i \in 1..Len(fixlog) :
    /\ fixlog[i].original = remove_policy_hash(ExportedRole(fixlog[i].key))
    /\ fixlog[i].modified =
         [fixlog[i].original EXCEPT !.policy = ExpectedPolicy(fixlog[i].original.policy)]

\* C4: for every statement whose first resource matches a catalog entry,
\* the invalid actions validate reports for the statement are exactly the
\* statement's actions that are not * and not in the entry's verb list, each
\* as often as the statement has it; * and the entry's verbs are never
\* reported.
InvalidActionsOfMatched ==
  (runs >= 1 /\ pc = "idle") =>
    \A i \in 1..Len(all_policies_file) :
      \A entries \in {EntriesOf(all_policies_file[i].policy)} :
        \A j \in 1..Len(all_policies_file[i].policy) :
          \A reported \in {ActionsOfRecord(RecordOfIn(all_policies_file[i], entries, j))} :
            entries[j] > 0 =>
              \A a \in Range(VerbOrder) :
                Count(reported, a)
                  = IF NotInVerbList(entries[j], a)
                    THEN Count(StatementActions(all_policies_file[i].policy[j]), a)
                    ELSE 0

\* validate has reported a matched statement that has the wildcard, a verb
\* of the entry and actions that are not in the verb list.
InvalidActionsOfMatchedWitness ==
  /\ runs >= 1
  /\ \E j \in 1..Len(all_policies_file[1].policy) :
       /\ IsMatched(all_policies_file[1].policy[j])
       /\ "*" \in Range(StatementActions(all_policies_file[1].policy[j]))
       /\ "viewProject" \in Range(StatementActions(all_policies_file[1].policy[j]))
       /\ Len(ReportedActions(all_policies_file[1], j)) = 3

\* C5: for a statement whose first resource matches no catalog pattern,
\* validate reports the whole statement, with the statement's action list
\* as it was supplied.
UnmatchedReportedWhole ==
  (runs >= 1 /\ pc = "idle") =>
    \A i \in 1..Len(all_policies_file) :
      \A entries \in {EntriesOf(all_policies_file[i].policy)} :
        \A j \in 1..Len(all_policies_file[i].policy) :
          entries[j] = 0 =>
            RecordOfIn(all_policies_file[i], entries, j) = <<all_policies_file[i].policy[j]>>

\* validate has reported a statement of unknown resource type whose action
\* list is not in sorted order.
UnmatchedReportedWholeWitness ==
  /\ runs >= 1
  /\ \E j \in 1..Len(all_policies_file[1].policy) :
       /\ IsUnmatched(all_policies_file[1].policy[j])
       /\ StatementActions(all_policies_file[1].policy[j])
            # SortVerbs(StatementActions(all_policies_file[1].policy[j]))
       /\ RecordOf(all_policies_file[1], j) # <<>>

\* The actions of all the records of a role's report, in order
RECURSIVE AllReported(_)
AllReported(recs) ==
  IF recs = <<>> THEN <<>> ELSE StatementActions(Head(recs)) \o AllReported(Tail(recs))

\* The actions of all the statements of a policy, in order
RECURSIVE AllActions(_)
AllActions(policy) ==
  IF policy = <<>> THEN <<>> ELSE StatementActions(Head(policy)) \o AllActions(Tail(policy))

\* An action that is in no verb list of the catalog
AbsentFromCatalog(a) ==
  a # "*" /\ \A e \in 1..Len(Catalog) : a \notin Range(Catalog[e].actions)

\* How often the statements 1..j of a policy flag action a, the entries of
\* the statements being given
RECURSIVE FlaggedCountIn(_, _, _, _)
FlaggedCountIn(policy, entries, a, j) ==
  IF j = 0 THEN 0
  ELSE (IF a \in FlaggedIn(policy[j], entries[j])
        THEN Count(StatementActions(policy[j]), a) ELSE 0)
       + FlaggedCountIn(policy, entries, a, j - 1)

\* How often the statements of a policy flag action a
FlaggedCount(policy, a) == FlaggedCountIn(policy, EntriesOf(policy), a, Len(policy))

\* No action is listed twice in the statement
NoActionTwice(statement) ==
  \A a \in Range(StatementActions(statement)) : Count(StatementActions(statement), a) = 1

\* C6 as the specification states it: in the result of validate an action
\* that is absent from the catalog is reported exactly once for a role, also
\* when several statements of the role with the same resource list have it
\* (each statement listing its actions once).
ReportedOncePerRole ==
  (runs >= 1 /\ pc = "idle") =>
    \A i \in 1..Len(all_policies_file) :
      (\A j \in 1..Len(all_policies_file[i].policy) : NoActionTwice(all_policies_file[i].policy[j])) =>
        \A a \in Range(AllActions(all_policies_file[i].policy)) :
          AbsentFromCatalog(a) =>
            Count(AllReported(RoleReport(all_policies_file[i].key)), a) = 1

\* C6 as the code has it: PolicyLinter.validate reports an action once for
\* each of its occurrences in an offending statement, so as often as the
\* statements of the role flag it; policy_validator.get_invalid_actions lists
\* every action of the role that is in no verb list of the catalog exactly
\* once.
ReportedPerOccurrence ==
  (runs >= 1 /\ pc = "idle") =>
    \A i \in 1..Len(all_policies_file) :
      /\ \A entries \in {EntriesOf(all_policies_file[i].policy)} :
         \A reported \in {AllReported(RoleReport(all_policies_file[i].key))} :
           \A a \in Range(VerbOrder) :
             Count(reported, a)
               = FlaggedCountIn(all_policies_file[i].policy, entries, a,
                                Len(all_policies_file[i].policy))
      /\ similarity_report.called =>
           \A a \in Range(VerbOrder) :
             Count(IF DictHas(similarity_report.report, all_policies_file[i].key)
                   THEN DictGet(similarity_report.report, all_policies_file[i].key)
                   ELSE <<>>, a)
               = IF a \in Range(AllActions(all_policies_file[i].policy))
                    /\ AbsentFromCatalog(a)
                 THEN 1 ELSE 0

\* Two statements of a role with the same resource list have the same
\* action that is absent from the catalog; validate has reported it twice
\* and policy_validator.get_invalid_actions once.
ReportedPerOccurrenceWitness ==
  /\ runs >= 1 /\ pc = "idle" /\ similarity_report.called
  /\ Len(RoleReport("r1")) = 2
  /\ RoleReport("r1")[1].resources = RoleReport("r1")[2].resources
  /\ Count(AllReported(RoleReport("r1")), "deleteProject") >= 2
  /\ Count(DictGet(similarity_report.report, "r1"), "deleteProject") = 1

\* C7: the result of validate has an entry for a role exactly when a
\* statement of the role is offending; the entry holds one record for each
\* offending statement and no record without invalid actions.
ReportEntries ==
  (runs >= 1 /\ pc = "idle") =>
    /\ \A i \in 1..Len(all_policies_file) :
         \A entries \in {EntriesOf(all_policies_file[i].policy)} :
           /\ DictHas(invalid_policies, all_policies_file[i].key)
                <=> \E j \in 1..Len(all_policies_file[i].policy) :
                      OffendingIn(all_policies_file[i].policy[j], entries[j])
           /\ Len(RoleReport(all_policies_file[i].key))
                = RecordIndexIn(all_policies_file[i].policy, entries,
                                Len(all_policies_file[i].policy))
    /\ \A k \in 1..Len(invalid_policies) :
         /\ \E i \in 1..Len(all_policies_file) :
              all_policies_file[i].key = invalid_policies[k].key
         /\ \A n \in 1..Len(invalid_policies[k].value) :
              StatementActions(invalid_policies[k].value[n]) # <<>>

\* validate has run on a role with an offending and a clean statement: the
\* role's entry holds one record.
ReportEntriesWitness ==
  /\ runs >= 1 /\ pc = "idle"
  /\ Len(all_policies_file[1].policy) = 2
  /\ ~Offending(all_policies_file[1].policy[1])
  /\ Offending(all_policies_file[1].policy[2])
  /\ Len(RoleReport("r1")) = 1

\* C8: validate run twice in succession on the same roles and catalog
\* returns the same report both times.
ValidateIdempotent ==
  runs >= 2 => invalid_policies = previous_report

\* validate has run twice on the same list of roles, the first run sorted
\* an action list that has invalid actions, and the report is not empty.
ValidateIdempotentWitness ==
  /\ runs = 2
  /\ Len(invalid_policies) > 0
  /\ policies # all_policies_file
  /\ \E j \in 1..Len(all_policies_file[1].policy) :
       Len(ReportedActions(all_policies_file[1], j)) = 3

(***************************************************************************)
(* Properties of catalog matching                                          *)
(***************************************************************************)

RECURSIVE SegmentMatch(_, _, _, _)
\* Pattern p from position i matches all of text r from position j, a * of
\* the pattern standing for any run of characters other than the colon.
SegmentMatch(p, i, r, j) ==
  IF i > Len(p) THEN j > Len(r)
  ELSE IF p[i] = "*"
  THEN \E k \in j..(Len(r) + 1) :
         /\ \A m \in j..(k - 1) : r[m] # ":"
         /\ SegmentMatch(p, i + 1, r, k)
  ELSE j <= Len(r) /\ r[j] = p[i] /\ SegmentMatch(p, i + 1, r, j + 1)

\* A text without the one line break that $ lets a match end before
WithoutFinalNewline(r) ==
  IF r # <<>> /\ r[Len(r)] = "\n" THEN SubSeq(r, 1, Len(r) - 1) ELSE r

InFix == pc \notin {"idle"} /\ invalid_actions_file.exists

\* The items of the report the role loop has visited so far
VisitedItems ==
  IF InFix THEN 1..(Len(invalid_actions_file.content) - Len(todo)) ELSE {}

\* Stripping the reported actions of the item leaves its role no statement
EmptiedByFix(item) == FixRole(all_policies_file, item.key, item.value).outcome = "skipped"

FilesOf(key) == {i \in 1..Len(files) : files[i].name[1] = key}

\* The statements of the role have pairwise different resource hashes
DistinctHashes(role) ==
  \A m, n \in 1..Len(role.hash) : m # n => role.hash[m] # role.hash[n]

ValidateLeavesInputs ==
  runs >= 1 => (policies = all_policies_file /\ resource_actions = Catalog)

\* C18: a role with two statements of the same resource hash is never
\* fixed or skipped by fix_invalid_policies; the run raises for it.
CollisionFailsLoudly ==
  \A k \in VisitedItems :
    \A item \in {invalid_actions_file.content[k]} :
      ~DistinctHashes(ExportedRole(item.key)) =>
        /\ item.key \notin Range(fixed_policies)
        /\ item.key \notin Range(skipped_policies)

\* C19: an error raised for a role during the fix run (a failed round-trip
\* check or a failed statement lookup) ends the work on that role only: it
\* is surfaced, the role has no file, and every other role of the report is
\* still visited.
FatalForThatRoleOnly ==
  (InFix /\ pc = "raised") =>
    /\ err # ""
    /\ cur.key # "" => FilesOf(cur.key) = {}
    /\ todo = <<>>

(***************************************************************************)
(* Properties of the attribute extractor                                   *)
(***************************************************************************)

RECURSIVE Segments(_)
\* s.split(':')
Segments(s) ==
  IF FindFrom(s, ":", 1) = 0 THEN <<s>>
  ELSE <<SubSeq(s, 1, FindFrom(s, ":", 1) - 1)>>
       \o Segments(SubSeq(s, FindFrom(s, ":", 1) + 1, Len(s)))

\* A segment is type/name
TypeOf(segment) ==
  IF FindFrom(segment, "/", 1) = 0 THEN segment
  ELSE SubSeq(segment, 1, FindFrom(segment, "/", 1) - 1)

NameOf(segment) ==
  IF FindFrom(segment, "/", 1) = 0 THEN <<>>
  ELSE SubSeq(segment, FindFrom(segment, "/", 1) + 1, Len(segment))

IsPlaceholder(name) ==
  /\ Len(name) > Len(RoleAttrOpen) + 1
  /\ StartsAt(name, RoleAttrOpen, 1)
  /\ FindFrom(name, "}", 1) = Len(name)

PlaceholderKey(name) == SubSeq(name, Len(RoleAttrOpen) + 1, Len(name) - 1)

\* A name of a role resource that is a value: not empty, not the wildcard,
\* no placeholder
IsConcrete(name) ==
  name # <<>> /\ name # <<"*">> /\ \A i \in 1..Len(name) : name[i] \notin {"$", "{", "}", "*"}

\* The segments of a template resource that hold a placeholder
PlaceholderSegments(t) ==
  {n \in 1..Len(Segments(t)) : IsPlaceholder(NameOf(Segments(t)[n]))}

\* The placeholders of a template resource are for distinct keys, one in a
\* segment
DistinctKeys(t) ==
  /\ Len(FindKeys(t, 1)) = Cardinality(PlaceholderSegments(t))
  /\ \A m, n \in PlaceholderSegments(t) :
       m # n => PlaceholderKey(NameOf(Segments(t)[m])) # PlaceholderKey(NameOf(Segments(t)[n]))

\* A role resource has the shape of a template resource: the same types in
\* the same segments, the template's literal names, and a value wherever the
\* template has a placeholder or a wildcard.
SameShape(t, r) ==
  /\ Len(Segments(t)) = Len(Segments(r))
  /\ \A n \in 1..Len(Segments(t)) :
       /\ TypeOf(Segments(t)[n]) = TypeOf(Segments(r)[n])
       /\ IsConcrete(NameOf(Segments(r)[n]))
       /\ \/ IsPlaceholder(NameOf(Segments(t)[n]))
          \/ NameOf(Segments(t)[n]) = <<"*">>
          \/ NameOf(Segments(t)[n]) = NameOf(Segments(r)[n])

\* The literal parts of a template resource have no character of
\* escaped_chars.
HasPlainLiterals(t) ==
  \A n \in 1..Len(Segments(t)) :
    /\ \A i \in 1..Len(TypeOf(Segments(t)[n])) :
         TypeOf(Segments(t)[n])[i] \notin Range(EscapedChars)
    /\ \/ IsPlaceholder(NameOf(Segments(t)[n]))
       \/ \A i \in 1..Len(NameOf(Segments(t)[n])) :
            NameOf(Segments(t)[n])[i] \notin Range(EscapedChars)

TemplateResourcesOf(template) == template.policy[1].resources

RoleResourcesOf(role) ==
  Range(GetList(role.policy[1], "resources")) \cup Range(GetList(role.policy[1], "notResources"))

ExtractedFor(key) == IF DictHas(ext.values, key) THEN DictGet(ext.values, key) ELSE {}

\* What the extractor is to return for the one resource t of a template
\* and role resources of its shape
ExpectedValues(t, resources, n) == {NameOf(Segments(r)[n]) : r \in resources}

\* C10: for a template resource with placeholders for distinct keys in
\* different segments and role resources of the same shape, every key is
\* bound only to the text at the position of its own placeholder, and to
\* all of it when the literal parts of the template have no regex
\* metacharacter; proj/${roleAttribute/p}:env/${roleAttribute/e} with
\* proj/acme:env/prod gives p = {acme} and e = {prod}, and
\* proj/${roleAttribute/project}:env/* gives project = {acme}, without prod.
PlaceholderIsolation ==
  ext.step = "extracted" =>
    /\ \A t \in {TemplateResourcesOf(ext.template)[1]} :
         ( /\ Len(TemplateResourcesOf(ext.template)) = 1
           /\ DistinctKeys(t)
           /\ \A r \in RoleResourcesOf(ext.role) : SameShape(t, r) ) =>
           /\ \A n \in PlaceholderSegments(t) :
                /\ ExtractedFor(PlaceholderKey(NameOf(Segments(t)[n])))
                     \subseteq ExpectedValues(t, RoleResourcesOf(ext.role), n)
                /\ HasPlainLiterals(t) =>
                     ExtractedFor(PlaceholderKey(NameOf(Segments(t)[n])))
                       = ExpectedValues(t, RoleResourcesOf(ext.role), n)
           /\ \A k \in 1..Len(ext.values) :
                \E n \in PlaceholderSegments(t) :
                  ext.values[k].key = PlaceholderKey(NameOf(Segments(t)[n]))
    /\ ( /\ TemplateResourcesOf(ext.template) = <<TemplatePE>>
         /\ RoleResourcesOf(ext.role) = {ProjAcmeEnvProd} ) =>
         ext.values = << [key |-> <<"p">>, value |-> {<<"a", "c", "m", "e">>}],
                         [key |-> <<"e">>, value |-> {<<"p", "r", "o", "d">>}] >>
    /\ ( /\ TemplateResourcesOf(ext.template) = <<TemplateProject>>
         /\ RoleResourcesOf(ext.role) = {ProjAcmeEnvProd} ) =>
         ext.values = << [key |-> <<"p", "r", "o", "j", "e", "c", "t">>,
                          value |-> {<<"a", "c", "m", "e">>}] >>

\* The extractor has run for the template resource
\* proj/${roleAttribute/p}:env/${roleAttribute/e} on proj/acme:env/prod and
\* has bound both keys.
PlaceholderIsolationWitness ==
  /\ ext.step = "extracted"
  /\ TemplateResourcesOf(ext.template) = <<TemplatePE>>
  /\ RoleResourcesOf(ext.role) = {ProjAcmeEnvProd}
  /\ Len(ext.values) = 2

\* C11: every value extract_from_role_with_patterns returns is not empty, is
\* not the wildcard * and holds no ${ of a placeholder, and no key of the
\* result has an empty set of values.
ExtractedValuesClean ==
  ext.step = "extracted" =>
    \A k \in 1..Len(ext.values) :
      /\ ext.values[k].value # {}
      /\ \A value \in ext.values[k].value :
           /\ value # <<>>
           /\ value # <<"*">>
           /\ ~Contains(value, <<"$", "{">>)

\* The role resource proj/*:env/prod was matched by both patterns of
\* proj/${roleAttribute/p}:env/${roleAttribute/e}: the * captured for p was
\* rejected and the key p is not in the result, which holds e = {prod}.
ExtractedValuesCleanWitness ==
  /\ ext.step = "extracted"
  /\ TemplateResourcesOf(ext.template) = <<TemplatePE>>
  /\ RoleResourcesOf(ext.role) = {ProjAllEnvProd}
  /\ FirstMatching(DictGet(ext.patterns, <<"p">>), ProjAllEnvProd) = 1
  /\ ~DictHas(ext.values, <<"p">>)
  /\ ExtractedFor(<<"e">>) = {<<"p", "r", "o", "d">>}

\* C20: a * of the template resource stands for text of one segment: when
\* the template has one resource and every resource of the role has more
\* segments than it, as proj/acme:env/prod:flag/f1 has for
\* proj/${roleAttribute/p}:env/*, no pattern matches and nothing is
\* extracted.
ExtractionWildcardInSegment ==
  ext.step = "extracted" =>
    \A t \in {TemplateResourcesOf(ext.template)[1]} :
      ( /\ Len(TemplateResourcesOf(ext.template)) = 1
        /\ \A r \in RoleResourcesOf(ext.role) : Len(Segments(r)) > Len(Segments(t)) ) =>
        ext.values = <<>>

(***************************************************************************)
(* Properties of the team manager                                          *)
(***************************************************************************)

\* The patch documents the batch has written so far, with their team
GeneratedDocuments ==
  {[team_key |-> g.team_key, document |-> ReadPatch(g.patch_file)] :
     g \in Range(batch.generated_patches)}

\* The roleAttributes of the team in the cached data
ExistingOf(team_key) ==
  GetList(batch.data.teams[FindTeam(batch.data, team_key)], "roleAttributes")

\* The attribute keys for which the document records extracted values
KeysWithValues(document) ==
  {document.extracted_values[n].key :
     n \in {m \in 1..Len(document.extracted_values) :
              document.extracted_values[m].value # <<>>}}

\* The instructions of a patch: addCustomRoles with the template role keys
\* first, then one instruction for each key with values, add or update by
\* the existing bindings of the team
WellFormedInstructions(team_key, document, instructions) ==
  /\ Len(instructions) >= 1
  /\ instructions[1].kind = "addCustomRoles"
  /\ Range(instructions[1].values) = Range(batch.template_role_keys)
  /\ \A j \in 2..Len(instructions) :
       /\ instructions[j].kind =
            (IF DictHas(ExistingOf(team_key), instructions[j].key)
             THEN "updateRoleAttribute" ELSE "addRoleAttribute")
       /\ instructions[j].values # <<>>
       /\ \A m \in 2..Len(instructions) :
            m # j => instructions[m].key # instructions[j].key
  /\ {instructions[j].key : j \in 2..Len(instructions)} = KeysWithValues(document)

\* C12: every generated team patch starts with the instruction that assigns
\* the template role keys, also when no attribute value was extracted, and
\* goes on with exactly one instruction for each attribute key that has
\* values: addRoleAttribute when the team has no binding for the key,
\* updateRoleAttribute when it has one.
PatchInstructionsShape ==
  \A g \in GeneratedDocuments : WellFormedInstructions(g.team_key, g.document, g.document.instructions)

\* A patch with an update and an add instruction, and one with no attribute
\* instruction at all
PatchInstructionsShapeWitness ==
  /\ \E g \in GeneratedDocuments :
       /\ \E j \in 2..Len(g.document.instructions) :
            g.document.instructions[j].kind = "updateRoleAttribute"
       /\ \E j \in 2..Len(g.document.instructions) :
            g.document.instructions[j].kind = "addRoleAttribute"
  /\ \E g \in GeneratedDocuments : Len(g.document.instructions) = 1

\* The teams of the cached data with the key
TeamsWithKey(team_key) == {t \in Range(batch.data.teams) : t.key = team_key}

\* The roles of the cached data that the team is assigned
RoleObjectsOf(t) == {r \in Range(batch.data.roles) : r.key \in Range(GetList(t, "roles"))}

\* How a team key has to end, read off the cached data: kind and reason
ExpectedOutcome(team_key) ==
  IF TeamsWithKey(team_key) = {} THEN <<"failed", "team_not_found">>
  ELSE IF \A t \in TeamsWithKey(team_key) : GetList(t, "roles") = <<>>
  THEN <<"skipped", "no_assigned_roles">>
  ELSE IF \A t \in TeamsWithKey(team_key) : RoleObjectsOf(t) = {}
  THEN <<"skipped", "no_role_objects">>
  ELSE IF \E t \in TeamsWithKey(team_key) : \E r \in RoleObjectsOf(t) : IsNull(r, "policy")
  THEN <<"failed", "exception">>
  ELSE <<"generated", "">>

\* The positions of the team keys that ended with the kind
EndedAs(kind) == {n \in 1..Len(batch.outcomes) : batch.outcomes[n].kind = kind}

\* C13: every team key of a batch ends in exactly one outcome, the one its
\* data calls for (team_not_found, no_assigned_roles, no role object in the
\* cache, an exception, or a generated patch); a patch file is written for
\* the generated ones only, and teams_processed is the sum of the patches
\* generated, the skipped teams and the failed teams.
OneOutcomePerTeam ==
  /\ \A n \in 1..Len(batch.outcomes) :
       /\ batch.outcomes[n].team_key = batch.team_keys[n]
       /\ <<batch.outcomes[n].kind, batch.outcomes[n].reason>>
            = ExpectedOutcome(batch.team_keys[n])
  /\ Len(batch.generated_patches) = Cardinality(EndedAs("generated"))
  /\ Len(batch.skipped_teams) = Cardinality(EndedAs("skipped"))
  /\ Len(batch.failed_teams) = Cardinality(EndedAs("failed"))
  /\ Len(batch.generated_patches) + Len(batch.skipped_teams) + Len(batch.failed_teams)
       = Len(batch.outcomes)
  /\ \A f \in patch_dir :
       f = EarlierPatch
       \/ \E n \in EndedAs("generated"), g \in Range(batch.generated_patches) :
            g.team_key = batch.team_keys[n] /\ g.patch_file = f.name
  /\ \A g \in Range(batch.generated_patches) : \E f \in patch_dir : f.name = g.patch_file
  /\ batch.step = "returned" =>
       /\ Len(batch.outcomes) = Len(batch.team_keys)
       /\ batch.result.teams_processed = Len(batch.team_keys)
       /\ batch.result.teams_processed
            = batch.result.patches_generated + Len(batch.result.skipped_teams)
              + Len(batch.result.failed_teams)

\* A batch has returned with a patch for one team and another team skipped
\* for roles that are not in the cache
OneOutcomePerTeamWitness ==
  /\ batch.step = "returned"
  /\ batch.result.patches_generated = 1
  /\ \E n \in 1..Len(batch.result.skipped_teams) :
       batch.result.skipped_teams[n].reason = "no_role_objects"

\* The positions of the batch whose team has been processed and raised
RaisedAt ==
  {n \in 1..Len(batch.team_keys) :
     n < batch.i /\ ExpectedOutcome(batch.team_keys[n]) = <<"failed", "exception">>}

\* C14: an exception while one team is processed is recorded as a failure
\* of that team with the reason exception, the batch goes on, and when it
\* returns every later team has been processed and has its own outcome.
ExceptionFailsOneTeam ==
  \A n \in RaisedAt :
    /\ batch.step \in {"loop", "returned"}
    /\ batch.outcomes[n] = [team_key |-> batch.team_keys[n], kind |-> "failed",
                            reason |-> "exception"]
    /\ \E m \in 1..Len(batch.failed_teams) :
         batch.failed_teams[m] = [team_key |-> batch.team_keys[n], reason |-> "exception"]
    /\ batch.step = "returned" =>
         \A k \in (n + 1)..Len(batch.team_keys) :
           /\ k <= Len(batch.outcomes)
           /\ batch.outcomes[k].team_key = batch.team_keys[k]
           /\ batch.outcomes[k].kind = ExpectedOutcome(batch.team_keys[k])[1]

\* A batch has returned whose first team raised and whose second team got
\* its patch
ExceptionFailsOneTeamWitness ==
  /\ batch.step = "returned"
  /\ 1 \in RaisedAt
  /\ Len(batch.outcomes) = 2
  /\ batch.outcomes[2].kind = "generated"
  /\ \E f \in patch_dir : f.name = batch.generated_patches[1].patch_file

\* The patch files in the directory that were generated for the team
FilesOfTeam(team_key) == {f \in patch_dir : f.document.team_key = team_key}

\* The file with the greatest name
GreatestNamed(patch_files) ==
  CHOOSE f \in patch_files : \A g \in patch_files \ {f} : StrLess(g.name, f.name)

\* C16: for every requested team with several patch files in the directory,
\* apply_patches selects the file of the team with the greatest name, in
\* whatever order the directory is listed, and submits the instructions of
\* that file and no other for the team.
LatestPatchApplied ==
  apply.called =>
    \A team_key \in Range(apply.team_keys) :
      Cardinality(FilesOfTeam(team_key)) >= 2 =>
        /\ DictHas(apply.selected_patch_files, team_key)
        /\ DictGet(apply.selected_patch_files, team_key)
             = GreatestNamed(FilesOfTeam(team_key)).name
        /\ \A k \in 1..Len(apply.submitted) :
             apply.submitted[k].team_key = team_key =>
               apply.submitted[k].instructions
                 = GreatestNamed(FilesOfTeam(team_key)).document.instructions
        /\ Cardinality({k \in 1..Len(apply.submitted) :
                          apply.submitted[k].team_key = team_key}) = 1

\* The same for a directory none of whose files is of a team with an
\* underscore in its key
LatestPatchAppliedPlainKeys ==
  (\A f \in patch_dir : FindFrom(f.document.team_key, "_", 1) = 0) => LatestPatchApplied

\* Two files of one team were in the directory when apply_patches ran
SeveralFilesApplied ==
  /\ apply.called
  /\ \A f \in patch_dir : FindFrom(f.document.team_key, "_", 1) = 0
  /\ \E team_key \in Range(apply.team_keys) : Cardinality(FilesOfTeam(team_key)) >= 2

\* C29: a patch file the generator wrote for a team is found by
\* apply_patches when the team is requested: the team key read from the
\* name of a file is the team key of the file's document, and a requested
\* team with files in the directory has one of its own files selected.
PatchFoundByTeamKey ==
  apply.called =>
    /\ \A f \in patch_dir :
         f.document.team_key \in Range(apply.team_keys) =>
           ParsedTeamKey(f.name, apply.team_keys) = <<f.document.team_key>>
    /\ \A team_key \in Range(apply.team_keys) :
         FilesOfTeam(team_key) # {} =>
           /\ DictHas(apply.selected_patch_files, team_key)
           /\ DictGet(apply.selected_patch_files, team_key)
                \in {f.name : f \in FilesOfTeam(team_key)}

(***************************************************************************)
(* Further properties of the attribute extractor                           *)
(***************************************************************************)

\* The literal parts of role resource r are those of template resource t:
\* the same segments with the same types, the template's literal names, and
\* a text that is not empty wherever the template has a placeholder
LiteralsEqual(t, r) ==
  /\ Len(Segments(t)) = Len(Segments(r))
  /\ \A n \in 1..Len(Segments(t)) :
       /\ TypeOf(Segments(t)[n]) = TypeOf(Segments(r)[n])
       /\ IF IsPlaceholder(NameOf(Segments(t)[n]))
          THEN NameOf(Segments(r)[n]) # <<>>
          ELSE NameOf(Segments(t)[n]) = <<"*">>
               \/ NameOf(Segments(t)[n]) = NameOf(Segments(r)[n])

\* C21: for a template resource whose literal part has a regex
\* metacharacter, as proj/a.b:env/${roleAttribute/e} has, a role resource
\* matches the synthesized pattern of a key exactly when its literal parts
\* are those of the template: proj/a.b:env/prod matches.
LiteralsMatchedLiterally ==
  ext.step = "extracted" =>
    \A t \in {TemplateResourcesOf(ext.template)[1]} :
      ( /\ Len(TemplateResourcesOf(ext.template)) = 1
        /\ DistinctKeys(t)
        /\ ~HasPlainLiterals(t) ) =>
        \A n \in PlaceholderSegments(t) :
          \A r \in RoleResourcesOf(ext.role) :
            FirstMatching(DictGet(ext.patterns, PlaceholderKey(NameOf(Segments(t)[n]))), r) # 0
              <=> LiteralsEqual(t, r)

\* The first pattern of the list that matches the resource (0: none)
FirstHit(patterns, resource) ==
  IF \E n \in 1..Len(patterns) : ReMatch(patterns[n], resource).ok
  THEN CHOOSE n \in 1..Len(patterns) :
         /\ ReMatch(patterns[n], resource).ok
         /\ \A m \in 1..(n - 1) : ~ReMatch(patterns[m], resource).ok
  ELSE 0

\* A captured text that is taken as a value
IsAccepted(value) == value # <<>> /\ value # <<"*">> /\ ~Contains(value, <<"$", "{">>)

\* What the first matching patterns of a key capture from the resources
FirstHitValues(patterns, resources) ==
  {ReMatch(patterns[FirstHit(patterns, r)], r).cap :
     r \in {q \in resources : FirstHit(patterns, q) # 0}}

\* C24: for every resource and key only the first pattern of the key that
\* matches contributes: the values of a key are the accepted ones among the
\* texts the first matching patterns capture, also when that text is
\* rejected; with the patterns of proj/${roleAttribute/p}:env/* and
\* proj/*:env/${roleAttribute/p}, proj/acme:env/prod gives p = {acme} and
\* proj/*:env/prod gives nothing.
FirstMatchWins ==
  ext.step = "extracted" =>
    \A k \in 1..Len(ext.patterns) :
      ExtractedFor(ext.patterns[k].key)
        = {v \in FirstHitValues(ext.patterns[k].value, RoleResourcesOf(ext.role)) :
             IsAccepted(v)}

\* The key p has two patterns that both match proj/*:env/prod; the first
\* captured *, which was rejected, the second would have captured prod, and
\* nothing was extracted.
FirstMatchWinsWitness ==
  /\ ext.step = "extracted"
  /\ ext.template = TemplateTwoPatterns
  /\ RoleResourcesOf(ext.role) = {ProjAllEnvProd}
  /\ Len(DictGet(ext.patterns, <<"p">>)) = 2
  /\ ReMatch(DictGet(ext.patterns, <<"p">>)[1], ProjAllEnvProd).cap = <<"*">>
  /\ ReMatch(DictGet(ext.patterns, <<"p">>)[2], ProjAllEnvProd).cap = <<"p", "r", "o", "d">>
  /\ ext.values = <<>>

(***************************************************************************)
(* Further properties of catalog matching                                  *)
(***************************************************************************)

\* A segment without its qualifier: type/name of type/name;tag=value
WithoutTag(segment) ==
  IF FindFrom(segment, ";", 1) = 0 THEN segment
  ELSE SubSeq(segment, 1, FindFrom(segment, ";", 1) - 1)

\* A resource without the qualifiers of its segments
WithoutTags(resource) ==
  Join(<<":">>, [n \in 1..Len(Segments(resource)) |-> WithoutTag(Segments(resource)[n])])

\* C22: does_pattern_match gives for a resource with a ;tag=value qualifier
\* the answer it gives for the resource without it: proj/p1;tag=v matches
\* the pattern proj/p1 as proj/p1 does.
TagQualifierIgnored ==
  match.called =>
    match.result = does_pattern_match(match.pattern, WithoutTags(match.resource))

(***************************************************************************)
(* The report generator: validate on the roles as they were fetched        *)
(* (ld_policy_report.py), without hashes                                   *)
(***************************************************************************)

\* A statement that has neither resources nor notResources
Resourceless == [actions |-> <<"viewProject", "deleteProject">>, effect |-> "allow"]

\* data['roles']: no role, or one role with statements of the universe and
\* statements without resources
FetchedRoles ==
  { <<>> }
  \cup { <<[key |-> "r1", policy |-> p]>> :
           p \in SeqsUpTo(StatementUniverse \cup {Resourceless}, MaxStatements) }

InitReport ==
  /\ \E roles \in FetchedRoles : policies = roles
  /\ all_policies_file = <<>>
  /\ resource_actions = Catalog
  /\ invalid_policies = <<>>
  /\ previous_report = <<>>
  /\ runs = 0
  /\ similarity_report = [called |-> FALSE, report |-> <<>>]
  /\ invalid_actions_file = NoFile
  /\ pc = "idle"
  /\ todo = <<>>
  /\ cur = NoCall
  /\ fixed_policies = <<>>
  /\ skipped_policies = <<>>
  /\ fixlog = <<>>
  /\ files = <<>>
  /\ err = ""
  /\ match = MatchIdle
  /\ ext = ExtIdle
  /\ TeamsIdle
  /\ ToolsIdle

\* policy_linter.validate(data.get('roles', []), resource_actions), and the
\* report written to invalid_actions_output when it is not empty; an empty
\* list of roles makes get_invalid_actions raise ValueError
ReportValidate ==
  /\ pc = "idle"
  /\ runs = 0
  /\ runs' = 1
  /\ previous_report' = invalid_policies
  /\ IF policies = <<>>
     THEN /\ Raise("ValueError")
          /\ UNCHANGED << policies, resource_actions, invalid_policies, invalid_actions_file >>
     ELSE /\ \E r \in {get_invalid_actions(policies, resource_actions)} :
               /\ policies' = r.policies
               /\ resource_actions' = r.catalog
               /\ invalid_policies' = r.report
               /\ invalid_actions_file' =
                    IF Len(r.report) > 0 THEN [exists |-> TRUE, content |-> r.report]
                    ELSE invalid_actions_file
          /\ UNCHANGED << pc, err >>
  /\ UNCHANGED << all_policies_file, similarity_report, todo, cur, fixed_policies,
                  skipped_policies, fixlog, files, other_vars >>

NextReport == ReportValidate

SpecReport == InitReport /\ [][NextReport]_vars

\* The statement specifies neither resources nor notResources
IsResourceless(statement) ==
  "resources" \notin DOMAIN statement /\ "notResources" \notin DOMAIN statement

\* C23: validate rejects a statement that specifies neither resources nor
\* notResources: a run on a role with such a statement ends with an error
\* raised.
ResourcelessRejected ==
  ( /\ runs > 0
    /\ \E i \in 1..Len(policies) :
         \E j \in 1..Len(policies[i].policy) : IsResourceless(policies[i].policy[j]) ) =>
    pc = "raised" /\ err # ""

(***************************************************************************)
(* The API client: _make_request_with_backoff (GET) and                    *)
(* _make_patch_request_with_backoff (PATCH)                                *)
(***************************************************************************)

\* ---- bounds ----
MaxRetries == 3   \* the greatest max_retries of a call

\* How one HTTP attempt can end: an answer that is not an error, HTTP 429,
\* an HTTP error answer (HTTPError with a response, status 500 or 403), or
\* no answer at all (ConnectionError, whose response is None)
AttemptOutcomes == {"ok", "429", "error_500", "error_403", "no_response"}

InitHttp ==
  /\ LinterStart(<<>>)
  /\ match = MatchIdle
  /\ ext = ExtIdle
  /\ TeamsIdle
  /\ cli = CliIdle
  /\ \E method \in {"get", "patch"}, max_retries \in 1..MaxRetries :
       http = [HttpIdle EXCEPT !.step = "loop", !.method = method,
                               !.max_retries = max_retries]

\* The except clause of the PATCH function (lines 130-144) for a
\* RequestException of the given kind at the given attempt
PatchExcept(call, outcome) ==
  IF outcome = "no_response"
  THEN \* e.response is None: e.response.json() raises
       [call EXCEPT !.step = "raised", !.raised = "AttributeError",
                    !.last_exception = "RequestException"]
  ELSE IF outcome = "error_403" \/ call.attempt >= call.max_retries - 1
  THEN [call EXCEPT !.step = "raised", !.raised = "RequestException",
                    !.last_exception = "RequestException"]
  ELSE [call EXCEPT !.attempt = @ + 1, !.last_exception = "RequestException"]

\* The except clause of the GET function (lines 191-201)
GetExcept(call, outcome) ==
  IF call.attempt >= call.max_retries - 1
  THEN [call EXCEPT !.step = "raised", !.raised = "RequestException",
                    !.last_exception = "RequestException"]
  ELSE [call EXCEPT !.attempt = @ + 1, !.last_exception = "RequestException"]

\* One pass of 'for attempt in range(max_retries)' that ended as outcome
AfterAttempt(call, outcome) ==
  IF outcome = "ok" THEN [call EXCEPT !.step = "returned"]
  ELSE IF outcome = "429" THEN [call EXCEPT !.attempt = @ + 1]
  ELSE IF call.method = "patch" THEN PatchExcept(call, outcome)
  ELSE GetExcept(call, outcome)

\* One attempt: requests.get / requests.patch and what follows it
HttpAttempt ==
  /\ http.step = "loop"
  /\ http.attempt < http.max_retries
  /\ \E outcome \in AttemptOutcomes :
       http' = AfterAttempt([http EXCEPT !.history = Append(@, outcome)], outcome)
  /\ UNCHANGED << all_policies_file, lint_vars, pc, fix_vars, match, ext, batch, patch_dir,
                  apply, cli >>

\* The loop is over: raise last_exception, which is None when no attempt
\* raised (raise None is a TypeError)
HttpExhausted ==
  /\ http.step = "loop"
  /\ http.attempt >= http.max_retries
  /\ http' = [http EXCEPT !.step = "raised",
                          !.raised = IF http.last_exception = "None" THEN "TypeError"
                                     ELSE http.last_exception]
  /\ UNCHANGED << all_policies_file, lint_vars, pc, fix_vars, match, ext, batch, patch_dir,
                  apply, cli >>

NextHttp == HttpAttempt \/ HttpExhausted

SpecHttp == InitHttp /\ [][NextHttp]_vars

\* C26: a call makes at most max_retries attempts, and a call all of whose
\* attempts failed (a request error or HTTP 429 on each) has ended by
\* raising a RequestException once the attempts are used up.
BackoffRaisesRequestException ==
  /\ Len(http.history) <= http.max_retries
  /\ ( /\ http.step \in {"returned", "raised"}
       /\ \A k \in 1..Len(http.history) : http.history[k] # "ok" ) =>
       http.step = "raised" /\ http.raised = "RequestException"

(***************************************************************************)
(* The policy linter CLI: App.run with --apply_patch and --reverse_patch   *)
(***************************************************************************)

\* PolicyLinter.is_valid_patch_file: content.get('type') == 'patch'
is_valid_patch_file(content) == "type" \in DOMAIN content /\ content.type = "patch"

\* PolicyLinter.is_valid_reverse_patch_file
is_valid_reverse_patch_file(content) ==
  "type" \in DOMAIN content /\ content.type = "reverse-patch"

\* str.lower() on the answers of the model
Lower(confirmation) ==
  CASE confirmation = "Y" -> "y"
    [] confirmation = "N" -> "n"
    [] confirmation = "YES" -> "yes"
    [] OTHER -> confirmation

\* Faulty variant: an empty answer confirms.
ConfirmedByDefault(confirmation) == confirmation = "" \/ Lower(confirmation) = "y"

\* The negation of 'not confirmation or confirmation.lower() != "y"'
Confirmed(confirmation) == confirmation # "" /\ Lower(confirmation) = "y"

\* What the operator may type at the prompt
Answers == {"", "y", "Y", "n", "N", "yes", "YES"}

\* The files the options may name: the three files fix writes for a role,
\* the custom role, and a document without a type tag
CliDocuments ==
  { patch_file("r1", <<Op("remove", <<"description">>, <<>>)>>),
    reverse_patch_file("r1", <<Op("add", <<"description">>, <<"d">>)>>),
    custom_role(<<"r1">>),
    [key |-> "r1", patch |-> <<Op("remove", <<"description">>, <<>>)>>] }

\* The value of an option: not given, or the file it names
OptionValues == {<<>>} \cup {<<content>> : content \in CliDocuments}

InitCli ==
  /\ LinterStart(<<>>)
  /\ match = MatchIdle
  /\ ext = ExtIdle
  /\ TeamsIdle
  /\ http = HttpIdle
  /\ \E earlier \in {"none", "given"}, apply_patch \in OptionValues,
        reverse_patch \in OptionValues :
       cli = [CliIdle EXCEPT !.step = "options", !.earlier = earlier,
                             !.apply_patch = apply_patch,
                             !.reverse_patch = reverse_patch]

\* run returns 1
Return1(run) == [run EXCEPT !.step = "done", !.ret = 1]

\* Lines 54-69: the export, validate and fix options, which may raise
CliOptions ==
  /\ cli.step = "options"
  /\ \E raised \in IF cli.earlier = "none" THEN {FALSE} ELSE BOOLEAN :
       cli' = IF raised THEN Return1(cli) ELSE [cli EXCEPT !.step = "apply"]
  /\ UNCHANGED << all_policies_file, lint_vars, pc, fix_vars, match, ext, batch, patch_dir,
                  apply, http >>

\* Lines 71-76 and 99-104: the patch file is loaded and its type is checked
CliLoadPatch ==
  /\ cli.step = "apply"
  /\ cli' = IF cli.apply_patch = <<>> THEN [cli EXCEPT !.step = "reverse"]
            ELSE IF ~is_valid_patch_file(cli.apply_patch[1]) THEN Return1(cli)
            ELSE [cli EXCEPT !.step = "apply_prompt"]
  /\ UNCHANGED << all_policies_file, lint_vars, pc, fix_vars, match, ext, batch, patch_dir,
                  apply, http >>

\* The prompt of an operation was answered: without a confirmation the run
\* returns 1; with one update_custom_role sends the request and the run goes
\* on when the call returns, and returns 1 when it raises
AfterPrompt(run, op, content, confirmation, failed, next) ==
  IF ~Confirmed(confirmation)
  THEN Return1([run EXCEPT !.answers = Append(@, [op |-> op, confirmation |-> confirmation])])
  ELSE [run EXCEPT !.answers = Append(@, [op |-> op, confirmation |-> confirmation]),
                   !.sent = Append(@, [op |-> op, key |-> content.key,
                                       patch |-> content.patch]),
                   !.step = IF failed THEN "done" ELSE next,
                   !.ret = IF failed THEN 1 ELSE @]

\* Lines 106-122: the prompt of --apply_patch and update_custom_role
CliConfirmPatch ==
  /\ cli.step = "apply_prompt"
  /\ \E confirmation \in Answers, failed \in BOOLEAN :
       cli' = AfterPrompt(cli, "apply", cli.apply_patch[1], confirmation, failed, "reverse")
  /\ UNCHANGED << all_policies_file, lint_vars, pc, fix_vars, match, ext, batch, patch_dir,
                  apply, http >>

\* Lines 78-83 and 127-132: the reverse patch file is loaded and checked
CliLoadReverse ==
  /\ cli.step = "reverse"
  /\ cli' = IF cli.reverse_patch = <<>> THEN [cli EXCEPT !.step = "end"]
            ELSE IF ~is_valid_reverse_patch_file(cli.reverse_patch[1]) THEN Return1(cli)
            ELSE [cli EXCEPT !.step = "reverse_prompt"]
  /\ UNCHANGED << all_policies_file, lint_vars, pc, fix_vars, match, ext, batch, patch_dir,
                  apply, http >>

\* Lines 134-150: the prompt of --reverse_patch and update_custom_role
CliConfirmReverse ==
  /\ cli.step = "reverse_prompt"
  /\ \E confirmation \in Answers, failed \in BOOLEAN :
       cli' = AfterPrompt(cli, "reverse", cli.reverse_patch[1], confirmation, failed, "end")
  /\ UNCHANGED << all_policies_file, lint_vars, pc, fix_vars, match, ext, batch, patch_dir,
                  apply, http >>

\* Lines 85-90: 1 without any option, 0 otherwise
CliReturn ==
  /\ cli.step = "end"
  /\ cli' = [cli EXCEPT !.step = "done",
                        !.ret = IF cli.earlier = "none" /\ cli.apply_patch = <<>>
                                   /\ cli.reverse_patch = <<>>
                                THEN 1 ELSE 0]
  /\ UNCHANGED << all_policies_file, lint_vars, pc, fix_vars, match, ext, batch, patch_dir,
                  apply, http >>

NextCli ==
  \/ CliOptions
  \/ CliLoadPatch
  \/ CliConfirmPatch
  \/ CliLoadReverse
  \/ CliConfirmReverse
  \/ CliReturn

SpecCli == InitCli /\ [][NextCli]_vars

\* The operator has answered y or Y at the prompt of the operation
AnsweredYes(op) ==
  \E k \in 1..Len(cli.answers) :
    cli.answers[k].op = op /\ cli.answers[k].confirmation \in {"y", "Y"}

\* An update request of the operation has been sent
Sent(op) == \E k \in 1..Len(cli.sent) : cli.sent[k].op = op

\* The file of the option has the type tag of its operation
TagMatches(op) ==
  IF op = "apply"
  THEN cli.apply_patch # <<>> /\ "type" \in DOMAIN cli.apply_patch[1]
       /\ cli.apply_patch[1].type = "patch"
  ELSE cli.reverse_patch # <<>> /\ "type" \in DOMAIN cli.reverse_patch[1]
       /\ cli.reverse_patch[1].type = "reverse-patch"

\* The option of the operation was given
Requested(op) == IF op = "apply" THEN cli.apply_patch # <<>> ELSE cli.reverse_patch # <<>>

\* C25: an update request of an operation is sent only when the type tag
\* of the loaded file is the one of the operation and the operator has
\* answered y or Y, and what is sent is the key and the patch of that file;
\* a run with the option of an operation that ends in any other case has
\* sent no request of that operation and does not return 0.
PatchSentOnlyConfirmed ==
  \A op \in {"apply", "reverse"} :
    /\ Sent(op) => TagMatches(op) /\ AnsweredYes(op)
    /\ \A k \in 1..Len(cli.sent) :
         cli.sent[k].op = op =>
           \A content \in {IF op = "apply" THEN cli.apply_patch[1]
                           ELSE cli.reverse_patch[1]} :
             cli.sent[k].key = content.key /\ cli.sent[k].patch = content.patch
    /\ ( /\ cli.step = "done"
         /\ Requested(op)
         /\ ~(TagMatches(op) /\ AnsweredYes(op)) ) =>
         ~Sent(op) /\ cli.ret # 0

\* A run with both options has ended: the patch was confirmed with Y and
\* sent, the reverse patch was declined with the empty answer and not sent,
\* and the run returned 1.
PatchSentOnlyConfirmedWitness ==
  /\ cli.step = "done"
  /\ Sent("apply")
  /\ \E k \in 1..Len(cli.answers) :
       cli.answers[k].op = "apply" /\ cli.answers[k].confirmation = "Y"
  /\ \E k \in 1..Len(cli.answers) :
       cli.answers[k].op = "reverse" /\ cli.answers[k].confirmation = ""
  /\ ~Sent("reverse")
  /\ cli.ret = 1

(***************************************************************************)
(* Further properties of the policy linter                                 *)
(***************************************************************************)

\* The report on file is what the last validate run returned
ReportIsCurrent == invalid_actions_file.exists /\ invalid_actions_file.content = invalid_policies

\* C27: fix_invalid_policies consumes the report validate produced for the
\* exported policies without raising, whether the statements use actions or
\* notActions and whether they were reported for invalid actions or for an
\* unknown resource type (roles whose statements share a resource hash are
\* left aside here).
FixConsumesReport ==
  ( /\ InFix
    /\ ReportIsCurrent
    /\ \A i \in 1..Len(all_policies_file) : DistinctHashes(all_policies_file[i]) ) =>
    pc # "raised"

(***************************************************************************)
(* The policy linter CLI over several runs: the roles are exported again   *)
(* between validations                                                     *)
(***************************************************************************)

\* What a later export may fetch: the role r1 with one statement
Refetched == {export \in Exports : Len(export) = 1 /\ Len(export[1].policy) = 1}

\* _proc_export_policies: the roles are fetched, hashed and saved as
\* all-policies.json, which the next validate loads
Export ==
  /\ pc = "idle"
  /\ \E export \in Refetched :
       /\ export # all_policies_file
       /\ all_policies_file' = export
       /\ policies' = export
  /\ UNCHANGED << resource_actions, invalid_policies, previous_report, runs,
                  similarity_report, invalid_actions_file, pc, fix_vars, other_vars >>

NextRerun == Export \/ Next

SpecRerun == Init /\ [][NextRerun]_vars

\* C28: after a validate step the report on file is the result of that
\* run: a report file that is there when the tool is idle after a
\* validation holds what the last validate returned.
PersistedReportIsLastResult ==
  (pc = "idle" /\ runs > 0 /\ invalid_actions_file.exists) =>
    invalid_actions_file.content = invalid_policies

\* C30: for a role whose statements have pairwise distinct resource
\* hashes, validating the modified policy fix_invalid_policies produced
\* from the report against the same catalog reports no invalid action.
\* The policy is looked at when it is handed to generate_patches.
FixedRoleRevalidatesClean ==
  (pc = "gen_make" /\ DistinctHashes(ExportedRole(cur.key))) =>
    get_invalid_actions(<<cur.modified>>, resource_actions).report = <<>>

\* A role with distinct hashes that had deleteProject reported, twice in
\* one statement, was fixed and kept statements.
FixedRoleRevalidatesCleanWitness ==
  /\ pc = "gen_make"
  /\ DistinctHashes(ExportedRole(cur.key))
  /\ cur.modified.policy # <<>>
  /\ \E j \in 1..Len(cur.original.policy) :
       Count(StatementActions(cur.original.policy[j]), "deleteProject") = 2

====
